---- MODULE Spec2Model ----
(***************************************************************************)
(* A model of the bencodex-rs codec: the value model (codec/types.rs),     *)
(* the binary decoder (codec/decode.rs) and the binary encoder             *)
(* (codec/encode.rs).  Bytes are integers 0..255, a byte vector is a       *)
(* sequence of bytes, and an offset is 0-based as in the source.           *)
(***************************************************************************)
EXTENDS Integers, Sequences, FiniteSets, TLC

VARIABLES pc, input, buffer, start, outcome, pendingA, pendingB, mapA, mapB, bufA, bufB

vars == <<pc, input, buffer, start, outcome, pendingA, pendingB, mapA, mapB, bufA, bufB>>

(***************************************************************************)
(* Bytes and small helpers                                                 *)
(***************************************************************************)

\* The byte literals the codec dispatches on and writes.
Ascii ==
  [d |-> 100, l |-> 108, u |-> 117, i |-> 105, t |-> 116, f |-> 102, n |-> 110,
   e |-> 101, colon |-> 58, minus |-> 45, zero |-> 48, nine |-> 57]

IsDigit(b) == b >= Ascii.zero /\ b <= Ascii.nine

\* vector.len()
VLen(vector) == Len(vector)

\* vector[i] with a 0-based index that is known to be in range
At(vector, i) == vector[i + 1]

\* &vector[from..to] with 0-based half-open bounds that are known to be in range
Slice(vector, from, to) == SubSeq(vector, from + 1, to)

RECURSIVE Flatten(_)
\* the bytes a Vec<u8> sink holds after the given writes, in order
Flatten(chunks) ==
  IF chunks = <<>> THEN <<>> ELSE Head(chunks) \o Flatten(Tail(chunks))

(***************************************************************************)
(* The value model                                                         *)
(***************************************************************************)

Binary(b) == [t |-> "Binary", v |-> b]
Text(s) == [t |-> "Text", v |-> s]
Boolean(b) == [t |-> "Boolean", v |-> b]
Number(n) == [t |-> "Number", v |-> n]
List(xs) == [t |-> "List", v |-> xs]
Dictionary(m) == [t |-> "Dictionary", v |-> m]
Null == [t |-> "Null"]

\* BencodexKey: the two variants, in declaration order
KeyBinary(b) == [t |-> "Binary", v |-> b]
KeyText(s) == [t |-> "Text", v |-> s]

(***************************************************************************)
(* UTF-8: a String is modelled as its sequence of Unicode scalar values;   *)
(* into_bytes / as_bytes give its UTF-8 bytes and str::from_utf8 validates *)
(* and reads them back.                                                    *)
(***************************************************************************)

Utf8OfChar(c) ==
  IF c < 128 THEN <<c>>
  ELSE IF c < 2048 THEN <<192 + (c \div 64), 128 + (c % 64)>>
  ELSE IF c < 65536 THEN <<224 + (c \div 4096), 128 + ((c \div 64) % 64), 128 + (c % 64)>>
  ELSE <<240 + (c \div 262144), 128 + ((c \div 4096) % 64),
         128 + ((c \div 64) % 64), 128 + (c % 64)>>

RECURSIVE as_bytes(_)
as_bytes(s) == IF s = <<>> THEN <<>> ELSE Utf8OfChar(Head(s)) \o as_bytes(Tail(s))

IsCont(b) == b >= 128 /\ b <= 191

RECURSIVE Utf8Scan(_, _, _)
\* the scan of str::from_utf8 from 1-based position p, with the scalars read so far
Utf8Scan(bytes, p, acc) ==
  IF p > Len(bytes) THEN [ok |-> TRUE, chars |-> acc]
  ELSE
    LET b0 == bytes[p]
        has(k) == p + k <= Len(bytes)
        b(k) == bytes[p + k]
    IN  IF b0 < 128 THEN Utf8Scan(bytes, p + 1, Append(acc, b0))
        ELSE IF b0 >= 194 /\ b0 <= 223 THEN
          IF has(1) /\ IsCont(b(1))
          THEN Utf8Scan(bytes, p + 2, Append(acc, (b0 - 192) * 64 + (b(1) - 128)))
          ELSE [ok |-> FALSE, chars |-> <<>>]
        ELSE IF b0 >= 224 /\ b0 <= 239 THEN
          IF /\ has(2)
             /\ IsCont(b(1)) /\ IsCont(b(2))
             /\ (b0 = 224 => b(1) >= 160)
             /\ (b0 = 237 => b(1) <= 159)
          THEN Utf8Scan(bytes, p + 3,
                        Append(acc, (b0 - 224) * 4096 + (b(1) - 128) * 64 + (b(2) - 128)))
          ELSE [ok |-> FALSE, chars |-> <<>>]
        ELSE IF b0 >= 240 /\ b0 <= 244 THEN
          IF /\ has(3)
             /\ IsCont(b(1)) /\ IsCont(b(2)) /\ IsCont(b(3))
             /\ (b0 = 240 => b(1) >= 144)
             /\ (b0 = 244 => b(1) <= 143)
          THEN Utf8Scan(bytes, p + 4,
                        Append(acc, (b0 - 240) * 262144 + (b(1) - 128) * 4096
                                    + (b(2) - 128) * 64 + (b(3) - 128)))
          ELSE [ok |-> FALSE, chars |-> <<>>]
        ELSE [ok |-> FALSE, chars |-> <<>>]

from_utf8(bytes) == Utf8Scan(bytes, 1, <<>>)

(***************************************************************************)
(* BigInt: arbitrary precision, held as a sign and the decimal digits of   *)
(* the magnitude without leading zeros (zero is the single digit 0).       *)
(***************************************************************************)

RECURSIVE StripZeros(_)
StripZeros(ds) ==
  IF Len(ds) > 1 /\ Head(ds) = 0 THEN StripZeros(Tail(ds)) ELSE ds

\* a parse that skips the sign and keeps the magnitude only
BigIntFromStrUnsigned(bytes) ==
  LET ds == IF bytes[1] = Ascii.minus THEN Tail(bytes) ELSE bytes
  IN  [neg |-> FALSE, mag |-> StripZeros([k \in 1..Len(ds) |-> ds[k] - Ascii.zero])]

\* BigInt::from_str on an optional '-' followed by one or more ASCII digits
BigIntFromStr(bytes) ==
  LET neg == bytes[1] = Ascii.minus
      ds == IF neg THEN Tail(bytes) ELSE bytes
      mag == StripZeros([k \in 1..Len(ds) |-> ds[k] - Ascii.zero])
  IN  [neg |-> neg /\ mag # <<0>>, mag |-> mag]

\* BigInt::to_str_radix(10)
to_str_radix(n) ==
  (IF n.neg THEN <<Ascii.minus>> ELSE <<>>)
    \o [k \in 1..Len(n.mag) |-> Ascii.zero + n.mag[k]]

RECURSIVE NatDigits(_)
NatDigits(n) == IF n < 10 THEN <<n>> ELSE Append(NatDigits(n \div 10), n % 10)

\* BigInt::from of a machine integer
BigIntFrom(n) ==
  [neg |-> n < 0, mag |-> NatDigits(IF n < 0 THEN 0 - n ELSE n)]

RECURSIVE FmtUsizeLowerHex(_)
\* the "{:x}" rendering of a usize
FmtUsizeLowerHex(n) ==
  LET digit == IF (n % 16) < 10 THEN Ascii.zero + (n % 16) ELSE 87 + (n % 16)
  IN  IF n < 16 THEN <<digit>> ELSE Append(FmtUsizeLowerHex(n \div 16), digit)

\* the "{}" rendering of a usize
FmtUsize(n) == [k \in 1..Len(NatDigits(n)) |-> Ascii.zero + NatDigits(n)[k]]

RECURSIVE MagValue(_)
\* the magnitude as an integer (used for magnitudes of at most 9 digits)
MagValue(ds) ==
  IF ds = <<>> THEN 0 ELSE MagValue(SubSeq(ds, 1, Len(ds) - 1)) * 10 + ds[Len(ds)]

RECURSIVE MagLess(_, _)
\* a < b for two magnitudes of the same length
MagLess(a, b) ==
  IF a = <<>> THEN FALSE
  ELSE IF Head(a) # Head(b) THEN Head(a) < Head(b)
  ELSE MagLess(Tail(a), Tail(b))

MagGreater(a, b) ==
  IF Len(a) # Len(b) THEN Len(a) > Len(b) ELSE MagLess(b, a)

RECURSIVE MagAddSmall(_, _)
\* a magnitude plus a small natural number
MagAddSmall(ds, k) ==
  IF ds = <<>> THEN (IF k = 0 THEN <<>> ELSE NatDigits(k))
  ELSE LET s == ds[Len(ds)] + k
       IN  Append(MagAddSmall(SubSeq(ds, 1, Len(ds) - 1), s \div 10), s % 10)

\* usize::MAX of a 64-bit target, 2^64 - 1
UsizeMax == <<1, 8, 4, 4, 6, 7, 4, 4, 0, 7, 3, 7, 0, 9, 5, 5, 1, 6, 1, 5>>

\* ToPrimitive::to_usize: None for a negative number or one above usize::MAX
to_usize(n) ==
  IF n.neg \/ MagGreater(n.mag, UsizeMax)
  THEN [some |-> FALSE, mag |-> <<>>]
  ELSE [some |-> TRUE, mag |-> n.mag]

(***************************************************************************)
(* DecodeError and the result of a decode.  A Rust panic (an index or a    *)
(* slice out of range, unwrap on None, todo!(), an overflowing addition)   *)
(* is the result Panic: the call aborts instead of returning.              *)
(***************************************************************************)

Ok(v, n) == [tag |-> "Ok", value |-> v, size |-> n]
InvalidBencodexValueError == [tag |-> "InvalidBencodexValueError"]
UnexpectedTokenError(token, point) ==
  [tag |-> "UnexpectedTokenError", token |-> token, point |-> point]
Panic(why) == [tag |-> "panic", why |-> why]

IsOk(r) == r.tag = "Ok"

(***************************************************************************)
(* The derived order of BencodexKey and BTreeMap::insert.  A map is the    *)
(* sequence of its <<key, value>> entries in the map's own key order.      *)
(***************************************************************************)

RECURSIVE SliceCmp(_, _)
\* Ord for [u8] and str: lexicographic by bytes; "Less", "Equal" or "Greater"
SliceCmp(xs, ys) ==
  IF xs = <<>> THEN (IF ys = <<>> THEN "Equal" ELSE "Less")
  ELSE IF ys = <<>> THEN "Greater"
  ELSE IF Head(xs) < Head(ys) THEN "Less"
  ELSE IF Head(xs) > Head(ys) THEN "Greater"
  ELSE SliceCmp(Tail(xs), Tail(ys))

\* the bytes a key's payload is compared by
KeyBytes(k) == IF k.t = "Text" THEN as_bytes(k.v) ELSE k.v

\* a derived Ord that forgets the variant and compares the payload bytes only
KeyOrdIgnoringVariant(x, y) == SliceCmp(KeyBytes(x), KeyBytes(y))

\* #[derive(Ord)] on BencodexKey: the variant first (Binary, then Text), then the payload
KeyOrd(x, y) ==
  IF x.t # y.t THEN (IF x.t = "Binary" THEN "Less" ELSE "Greater")
  ELSE SliceCmp(KeyBytes(x), KeyBytes(y))

\* the 1-based position of the entry whose key equals k in the map's order, or 0
MapFind(m, k) ==
  IF \E p \in 1..Len(m) : KeyOrd(m[p][1], k) = "Equal"
  THEN CHOOSE p \in 1..Len(m) : KeyOrd(m[p][1], k) = "Equal"
  ELSE 0

\* a map that keeps its entries in the order of their arrival
MapInsertInArrivalOrder(m, k, v) ==
  LET p == MapFind(m, k)
  IN  IF p # 0
      THEN [map |-> [m EXCEPT ![p] = <<m[p][1], v>>], old |-> TRUE]
      ELSE [map |-> Append(m, <<k, v>>), old |-> FALSE]

\* BTreeMap::insert: an equal key keeps the stored key and replaces its value;
\* a new key goes to its place in the order.  old is TRUE when a value was replaced.
MapInsert(m, k, v) ==
  LET p == MapFind(m, k)
  IN  IF p # 0
      THEN [map |-> [m EXCEPT ![p] = <<m[p][1], v>>], old |-> TRUE]
      ELSE LET below == Cardinality({q \in 1..Len(m) : KeyOrd(m[q][1], k) = "Less"})
           IN  [map |-> SubSeq(m, 1, below) \o <<<<k, v>>>> \o SubSeq(m, below + 1, Len(m)),
                old |-> FALSE]

(***************************************************************************)
(* codec/decode.rs                                                         *)
(***************************************************************************)

RECURSIVE ReadDigits(_, _)
\* the while loop of read_number: the index after the run of digits from size
ReadDigits(s, size) ==
  IF size < Len(s) /\ IsDigit(At(s, size)) THEN ReadDigits(s, size + 1) ELSE size

\* a reader that takes the canonical spelling only: None for a zero in front of
\* another digit and for "-0"
read_number_canonical(s) ==
  IF s = <<>> THEN [some |-> FALSE]
  ELSE
    LET is_negative == At(s, 0) = Ascii.minus
        first == IF is_negative THEN 1 ELSE 0
    IN  IF Len(s) = 1 /\ is_negative THEN [some |-> FALSE]
        ELSE
          LET size == ReadDigits(s, first)
          IN  IF size = first THEN [some |-> FALSE]
              ELSE IF At(s, first) = Ascii.zero /\ (is_negative \/ size > first + 1)
                THEN [some |-> FALSE]
              ELSE [some |-> TRUE, number |-> BigIntFromStr(Slice(s, 0, size)), size |-> size]

\* read_number: None, or Some((number, size))
read_number(s) ==
  IF s = <<>> THEN [some |-> FALSE]
  ELSE
    LET is_negative == At(s, 0) = Ascii.minus
    IN  IF Len(s) = 1 /\ is_negative THEN [some |-> FALSE]
        ELSE
          LET size == ReadDigits(s, IF is_negative THEN 1 ELSE 0)
          IN  IF (is_negative /\ size = 1) \/ size = 0
              THEN [some |-> FALSE]
              ELSE [some |-> TRUE, number |-> BigIntFromStr(Slice(s, 0, size)), size |-> size]

\* base + length_size in usize arithmetic, for a length that to_usize accepted:
\* the sum when it is small, "big" when it exceeds every buffer length without
\* overflowing, "overflow" when it passes usize::MAX
LengthEnd(base, mag) ==
  IF Len(mag) <= 9 THEN [kind |-> "sum", n |-> base + MagValue(mag)]
  ELSE IF MagGreater(MagAddSmall(mag, base), UsizeMax) THEN [kind |-> "overflow", n |-> 0]
  ELSE [kind |-> "big", n |-> 0]

\* a byte string decoder that trusts the declared length: no test against the end of
\* the buffer
decode_byte_string_trusting_length(vector, start0) ==
  IF start0 > VLen(vector) THEN Panic("slice start out of range")
  ELSE
    LET r == read_number(Slice(vector, start0, VLen(vector)))
    IN  IF ~r.some THEN InvalidBencodexValueError
        ELSE
          LET index == start0 + r.size
          IN  IF index >= VLen(vector) THEN InvalidBencodexValueError
              ELSE IF At(vector, index) # Ascii.colon
                THEN UnexpectedTokenError(At(vector, index), index)
              ELSE
                LET tsize == r.size + 1
                    length_size == to_usize(r.number)
                IN  IF ~length_size.some THEN Panic("unwrap on None")
                    ELSE
                      LET end == LengthEnd(start0 + tsize, length_size.mag)
                      IN  IF end.kind # "sum" THEN Panic("usize overflow")
                          ELSE Ok(Binary(Slice(vector, start0 + tsize,
                                               IF end.n < VLen(vector) THEN end.n
                                               ELSE VLen(vector))),
                                  end.n - start0)

decode_byte_string_impl(vector, start0) ==
  IF start0 > VLen(vector) THEN Panic("slice start out of range")
  ELSE
    LET r == read_number(Slice(vector, start0, VLen(vector)))
    IN  IF ~r.some THEN InvalidBencodexValueError
        ELSE
          LET index == start0 + r.size
          IN  IF index >= VLen(vector) THEN InvalidBencodexValueError
              ELSE IF At(vector, index) # Ascii.colon
                THEN UnexpectedTokenError(At(vector, index), index)
              ELSE
                LET tsize == r.size + 1
                    length_size == to_usize(r.number)
                IN  IF ~length_size.some THEN Panic("unwrap on None")
                    ELSE
                      LET end == LengthEnd(start0 + tsize, length_size.mag)
                      IN  IF end.kind = "overflow" THEN Panic("usize overflow")
                          ELSE IF end.kind = "big" \/ VLen(vector) < end.n
                            THEN InvalidBencodexValueError
                          ELSE Ok(Binary(Slice(vector, start0 + tsize, end.n)),
                                  end.n - start0)

\* a negative-length error that points one byte past the sign
NegativeLengthAfterSign(vector, start0, tsize) ==
  UnexpectedTokenError(At(vector, start0 + tsize), start0 + tsize + 1)

\* the error of decode_unicode_string_impl for length < 0: the byte at start + tsize
NegativeLength(vector, start0, tsize) ==
  UnexpectedTokenError(At(vector, start0 + tsize), start0 + tsize)

decode_unicode_string_impl(vector, start0) ==
  IF start0 >= VLen(vector) THEN InvalidBencodexValueError
  ELSE IF At(vector, start0) # Ascii.u THEN UnexpectedTokenError(At(vector, start0), start0)
  ELSE IF VLen(vector) < start0 + 1 + 1 THEN InvalidBencodexValueError
  ELSE
    LET r == read_number(Slice(vector, start0 + 1, VLen(vector)))
    IN  IF ~r.some THEN InvalidBencodexValueError
        ELSE IF r.number.neg THEN NegativeLength(vector, start0, 1)
        ELSE
          LET index == start0 + 1 + r.size
          IN  IF index >= VLen(vector) THEN InvalidBencodexValueError
              ELSE IF At(vector, index) # Ascii.colon
                THEN UnexpectedTokenError(At(vector, index), index)
              ELSE
                LET tsize == 1 + r.size + 1
                    length_size == to_usize(r.number)
                IN  IF ~length_size.some THEN Panic("unwrap on None")
                    ELSE
                      LET end == LengthEnd(start0 + tsize, length_size.mag)
                      IN  IF end.kind = "overflow" THEN Panic("usize overflow")
                          ELSE IF end.kind = "big" \/ VLen(vector) < end.n
                            THEN InvalidBencodexValueError
                          ELSE
                            LET text == from_utf8(Slice(vector, start0 + tsize, end.n))
                            IN  IF ~text.ok THEN InvalidBencodexValueError
                                ELSE Ok(Text(text.chars), end.n - start0)

\* a number decoder that answers the position after the 'e' in place of the size
decode_number_returning_end(vector, start0) ==
  IF VLen(vector) < start0 + 1 + 1 THEN InvalidBencodexValueError
  ELSE
    LET r == read_number(Slice(vector, start0 + 1, VLen(vector)))
    IN  IF ~r.some THEN UnexpectedTokenError(At(vector, start0 + 1), start0 + 1)
        ELSE
          LET index == start0 + 1 + r.size
          IN  IF index >= VLen(vector) THEN InvalidBencodexValueError
              ELSE IF At(vector, index) # Ascii.e
                THEN UnexpectedTokenError(At(vector, index), index)
              ELSE Ok(Number(r.number), index + 1)

decode_number_impl(vector, start0) ==
  IF VLen(vector) < start0 + 1 + 1 THEN InvalidBencodexValueError
  ELSE
    LET r == read_number(Slice(vector, start0 + 1, VLen(vector)))
    IN  IF ~r.some THEN UnexpectedTokenError(At(vector, start0 + 1), start0 + 1)
        ELSE
          LET index == start0 + 1 + r.size
          IN  IF index >= VLen(vector) THEN InvalidBencodexValueError
              ELSE IF At(vector, index) # Ascii.e
                THEN UnexpectedTokenError(At(vector, index), index)
              ELSE Ok(Number(r.number), 1 + r.size + 1)

RECURSIVE decode_impl(_, _)
RECURSIVE decode_dict_impl(_, _)
RECURSIVE DictLoop(_, _, _, _)
RECURSIVE decode_list_impl(_, _)
RECURSIVE ListLoop(_, _, _, _)

\* a narrowing with a catch-all arm that lets every variant through as an empty Binary key
NarrowKeyCatchAll(value) ==
  IF value.t = "Text" THEN [ok |-> TRUE, key |-> KeyText(value.v)]
  ELSE IF value.t = "Binary" THEN [ok |-> TRUE, key |-> KeyBinary(value.v)]
  ELSE [ok |-> TRUE, key |-> KeyBinary(<<>>)]

\* the match of decode_dict_impl that narrows a decoded value to a key
NarrowKey(value) ==
  IF value.t = "Text" THEN [ok |-> TRUE, key |-> KeyText(value.v)]
  ELSE IF value.t = "Binary" THEN [ok |-> TRUE, key |-> KeyBinary(value.v)]
  ELSE [ok |-> FALSE, key |-> KeyBinary(<<>>)]

\* the while loop of decode_dict_impl and what follows it
DictLoop(vector, start0, tsize, map) ==
  LET index == start0 + tsize
  IN  IF index >= VLen(vector) THEN InvalidBencodexValueError
      ELSE IF At(vector, index) = Ascii.e THEN Ok(Dictionary(map), tsize + 1)
      ELSE
        LET k == decode_impl(vector, index)
        IN  IF ~IsOk(k) THEN k
            ELSE IF ~NarrowKey(k.value).ok THEN InvalidBencodexValueError
            ELSE
              LET key == NarrowKey(k.value).key
                  v == decode_impl(vector, start0 + tsize + k.size)
              IN  IF ~IsOk(v) THEN v
                  ELSE
                    LET ins == MapInsert(map, key, v.value)
                    IN  IF ins.old THEN Panic("todo!()")
                        ELSE DictLoop(vector, start0, tsize + k.size + v.size, ins.map)

decode_dict_impl(vector, start0) ==
  IF start0 >= VLen(vector) THEN InvalidBencodexValueError
  ELSE IF At(vector, start0) # Ascii.d THEN UnexpectedTokenError(At(vector, start0), start0)
  ELSE DictLoop(vector, start0, 1, <<>>)

\* a list loop that hands each element to decode_impl as a slice of its own, so that
\* the points of the element's errors count from the element's first byte
ListLoopOnSlices(vector, start0, tsize, list) ==
  LET index == start0 + tsize
  IN  IF index >= VLen(vector) THEN InvalidBencodexValueError
      ELSE IF At(vector, index) = Ascii.e THEN Ok(List(list), tsize + 1)
      ELSE
        LET v == decode_impl(Slice(vector, index, VLen(vector)), 0)
        IN  IF ~IsOk(v) THEN v
            ELSE ListLoop(vector, start0, tsize + v.size, Append(list, v.value))

\* the while loop of decode_list_impl and what follows it
ListLoop(vector, start0, tsize, list) ==
  LET index == start0 + tsize
  IN  IF index >= VLen(vector) THEN InvalidBencodexValueError
      ELSE IF At(vector, index) = Ascii.e THEN Ok(List(list), tsize + 1)
      ELSE
        LET v == decode_impl(vector, index)
        IN  IF ~IsOk(v) THEN v
            ELSE ListLoop(vector, start0, tsize + v.size, Append(list, v.value))

decode_list_impl(vector, start0) ==
  IF start0 >= VLen(vector) THEN InvalidBencodexValueError
  ELSE IF At(vector, start0) # Ascii.l THEN UnexpectedTokenError(At(vector, start0), start0)
  ELSE ListLoop(vector, start0, 1, <<>>)

\* the last arms with the point of the error taken relative to the decoded slice
SingleByteRelativePoint(lead, start0) ==
  IF lead = Ascii.t THEN Ok(Boolean(TRUE), 1)
  ELSE IF lead = Ascii.f THEN Ok(Boolean(FALSE), 1)
  ELSE IF lead = Ascii.n THEN Ok(Null, 1)
  ELSE UnexpectedTokenError(lead, 0)

\* the last four arms of decode_impl's match: 't', 'f', 'n' and the catch-all
SingleByte(lead, start0) ==
  IF lead = Ascii.t THEN Ok(Boolean(TRUE), 1)
  ELSE IF lead = Ascii.f THEN Ok(Boolean(FALSE), 1)
  ELSE IF lead = Ascii.n THEN Ok(Null, 1)
  ELSE UnexpectedTokenError(lead, start0)

decode_impl(vector, start0) ==
  IF start0 >= VLen(vector) THEN InvalidBencodexValueError
  ELSE
    LET lead == At(vector, start0)
    IN  IF lead = Ascii.d THEN decode_dict_impl(vector, start0)
        ELSE IF lead = Ascii.l THEN decode_list_impl(vector, start0)
        ELSE IF lead = Ascii.u THEN decode_unicode_string_impl(vector, start0)
        ELSE IF lead = Ascii.i THEN decode_number_impl(vector, start0)
        ELSE IF IsDigit(lead) THEN decode_byte_string_impl(vector, start0)
        ELSE SingleByte(lead, start0)

\* a top-level decode that takes bytes left over after the value for an error
decode_whole_buffer(vector) ==
  LET r == decode_impl(vector, 0)
  IN  IF ~IsOk(r) THEN r
      ELSE IF r.size # VLen(vector) THEN InvalidBencodexValueError
      ELSE [tag |-> "Ok", value |-> r.value]

\* Decode::decode for Vec<u8>: the value alone, or the error
decode(vector) ==
  LET r == decode_impl(vector, 0)
  IN  IF IsOk(r) THEN [tag |-> "Ok", value |-> r.value] ELSE r

(***************************************************************************)
(* codec/encode.rs.  An encode is the sequence of the writes it makes to   *)
(* the sink, each write a byte sequence; a Vec<u8> sink holds their        *)
(* concatenation.                                                          *)
(***************************************************************************)

\* impl Encode for Vec<u8>: write!(writer, "{}:", len), then the bytes
encode_bytes(x) == <<FmtUsize(Len(x)), <<Ascii.colon>>, x>>

\* a String encoder that writes the number of characters as the length
encode_string_counting_chars(x) ==
  <<<<Ascii.u>>, FmtUsize(Len(x)), <<Ascii.colon>>, as_bytes(x)>>

\* impl Encode for String: write!(writer, "u{}:", bytes.len()), then the bytes
encode_string(x) ==
  LET bytes == as_bytes(x)
  IN  <<<<Ascii.u>>, FmtUsize(Len(bytes)), <<Ascii.colon>>, bytes>>

\* impl Encode for bool
encode_bool(x) == <<IF x THEN <<Ascii.t>> ELSE <<Ascii.f>>>>

\* impl Encode for BigInt
encode_bigint(x) == <<<<Ascii.i>>, to_str_radix(x), <<Ascii.e>>>>

\* impl Encode for ()
encode_unit == <<<<Ascii.n>>>>

RECURSIVE compare_vector(_, _)
\* the zip loop, then the comparison of the lengths when one side runs out
compare_vector(xs, ys) ==
  IF xs = <<>> \/ ys = <<>>
  THEN (IF Len(xs) < Len(ys) THEN "Less" ELSE IF Len(xs) > Len(ys) THEN "Greater" ELSE "Equal")
  ELSE IF Head(xs) > Head(ys) THEN "Greater"
  ELSE IF Head(xs) < Head(ys) THEN "Less"
  ELSE compare_vector(Tail(xs), Tail(ys))

\* a comparator whose two mixed cases are exchanged: Text before Binary
compare_key_text_first(x, y) ==
  IF x.t = "Text" /\ y.t = "Text" THEN compare_vector(as_bytes(x.v), as_bytes(y.v))
  ELSE IF x.t = "Binary" /\ y.t = "Binary" THEN compare_vector(x.v, y.v)
  ELSE IF x.t = "Text" THEN "Less"
  ELSE "Greater"

compare_key(x, y) ==
  IF x.t = "Text" /\ y.t = "Text" THEN compare_vector(as_bytes(x.v), as_bytes(y.v))
  ELSE IF x.t = "Binary" /\ y.t = "Binary" THEN compare_vector(x.v, y.v)
  ELSE IF x.t = "Text" THEN "Greater"
  ELSE "Less"

RECURSIVE InsertByKey(_, _)
\* one step of a stable sort by compare_key: p goes after every entry not greater than it
InsertByKey(sorted, p) ==
  IF sorted = <<>> THEN <<p>>
  ELSE LET last == sorted[Len(sorted)]
       IN  IF compare_key(last[1], p[1]) = "Greater"
           THEN Append(InsertByKey(SubSeq(sorted, 1, Len(sorted) - 1), p), last)
           ELSE Append(sorted, p)

RECURSIVE sorted_by(_)
\* Itertools::sorted_by with compare_key on the keys: a stable sort of the entries
sorted_by(pairs) ==
  IF pairs = <<>> THEN <<>>
  ELSE InsertByKey(sorted_by(SubSeq(pairs, 1, Len(pairs) - 1)), pairs[Len(pairs)])

RECURSIVE encode(_)
RECURSIVE encode_list_items(_)
RECURSIVE encode_map_pairs(_)

\* the for loop of impl Encode for Vec<BencodexValue>
encode_list_items(xs) ==
  IF xs = <<>> THEN <<>> ELSE encode(Head(xs)) \o encode_list_items(Tail(xs))

\* impl Encode for Vec<BencodexValue>
encode_list(xs) == <<<<Ascii.l>>>> \o encode_list_items(xs) \o <<<<Ascii.e>>>>

\* the for loop of impl Encode for BTreeMap: the key as a value, then the value
encode_map_pairs(pairs) ==
  IF pairs = <<>> THEN <<>>
  ELSE LET key == IF Head(pairs)[1].t = "Binary" THEN Binary(Head(pairs)[1].v)
                  ELSE Text(Head(pairs)[1].v)
       IN  encode(key) \o encode(Head(pairs)[2]) \o encode_map_pairs(Tail(pairs))

\* impl Encode for BTreeMap<BencodexKey, BencodexValue>
encode_map(m) ==
  <<<<Ascii.d>>>> \o encode_map_pairs(sorted_by(m)) \o <<<<Ascii.e>>>>

\* impl Encode for BencodexValue
encode(v) ==
  IF v.t = "Binary" THEN encode_bytes(v.v)
  ELSE IF v.t = "Text" THEN encode_string(v.v)
  ELSE IF v.t = "Dictionary" THEN encode_map(v.v)
  ELSE IF v.t = "List" THEN encode_list(v.v)
  ELSE IF v.t = "Boolean" THEN encode_bool(v.v)
  ELSE IF v.t = "Null" THEN encode_unit
  ELSE encode_bigint(v.v)

\* value.encode(&mut vec): the bytes the vector holds afterwards
EncodeToVec(v) == Flatten(encode(v))

(***************************************************************************)
(* codec/encode.rs with a sink that can fail.  A writer counts the calls    *)
(* made to it, fails the calls whose number is in throw_counts, and keeps   *)
(* the bytes of the calls that succeed.  A result is [ok, writer].          *)
(***************************************************************************)

Sink(throw_counts) ==
  [call_count |-> 0, throw_counts |-> throw_counts, written |-> <<>>]

\* writer.write_all(bytes)
write_all(writer, bytes) ==
  LET n == writer.call_count + 1
  IN  IF n \in writer.throw_counts
      THEN [ok |-> FALSE, writer |-> [writer EXCEPT !.call_count = n]]
      ELSE [ok |-> TRUE,
            writer |-> [writer EXCEPT !.call_count = n, !.written = @ \o bytes]]

RECURSIVE WriteEach(_, _)
\* the writes of write!(...)? and of consecutive write_all(...)? lines, in turn: the
\* first that fails is returned and nothing after it runs
WriteEach(writer, chunks) ==
  IF chunks = <<>> THEN [ok |-> TRUE, writer |-> writer]
  ELSE LET r == write_all(writer, Head(chunks))
       IN  IF ~r.ok THEN r ELSE WriteEach(r.writer, Tail(chunks))

encode_bytes_to(x, writer) == WriteEach(writer, encode_bytes(x))

\* a String encoder that refuses the empty string, whatever the sink does
encode_string_refusing_empty(x, writer) ==
  IF x = <<>> THEN [ok |-> FALSE, writer |-> writer]
  ELSE WriteEach(writer, encode_string(x))

encode_string_to(x, writer) == WriteEach(writer, encode_string(x))

encode_bool_to(x, writer) == WriteEach(writer, encode_bool(x))

encode_bigint_to(x, writer) == WriteEach(writer, encode_bigint(x))

encode_unit_to(writer) == WriteEach(writer, encode_unit)

RECURSIVE encode_to(_, _)
RECURSIVE encode_list_items_to(_, _)
RECURSIVE encode_map_pairs_to(_, _)

\* a for loop that drops the result of el.encode(writer) and goes on
encode_list_items_dropping_errors(xs, writer) ==
  IF xs = <<>> THEN [ok |-> TRUE, writer |-> writer]
  ELSE encode_list_items_to(Tail(xs), encode_to(Head(xs), writer).writer)

\* the for loop of impl Encode for Vec<BencodexValue>: el.encode(writer)?
encode_list_items_to(xs, writer) ==
  IF xs = <<>> THEN [ok |-> TRUE, writer |-> writer]
  ELSE LET r == encode_to(Head(xs), writer)
       IN  IF ~r.ok THEN r ELSE encode_list_items_to(Tail(xs), r.writer)

\* impl Encode for Vec<BencodexValue>
encode_list_to(xs, writer) ==
  LET open == write_all(writer, <<Ascii.l>>)
  IN  IF ~open.ok THEN open
      ELSE LET items == encode_list_items_to(xs, open.writer)
           IN  IF ~items.ok THEN items ELSE write_all(items.writer, <<Ascii.e>>)

\* the for loop of impl Encode for BTreeMap: key.encode(writer)?; value.encode(writer)?
encode_map_pairs_to(pairs, writer) ==
  IF pairs = <<>> THEN [ok |-> TRUE, writer |-> writer]
  ELSE LET key == IF Head(pairs)[1].t = "Binary" THEN Binary(Head(pairs)[1].v)
                  ELSE Text(Head(pairs)[1].v)
           k == encode_to(key, writer)
       IN  IF ~k.ok THEN k
           ELSE LET v == encode_to(Head(pairs)[2], k.writer)
                IN  IF ~v.ok THEN v ELSE encode_map_pairs_to(Tail(pairs), v.writer)

\* impl Encode for BTreeMap<BencodexKey, BencodexValue>
encode_map_to(m, writer) ==
  LET pairs == sorted_by(m)
      open == write_all(writer, <<Ascii.d>>)
  IN  IF ~open.ok THEN open
      ELSE LET items == encode_map_pairs_to(pairs, open.writer)
           IN  IF ~items.ok THEN items ELSE write_all(items.writer, <<Ascii.e>>)

\* impl Encode for BencodexValue: x.encode(writer)? in every arm, then Ok(())
encode_to(v, writer) ==
  IF v.t = "Binary" THEN encode_bytes_to(v.v, writer)
  ELSE IF v.t = "Text" THEN encode_string_to(v.v, writer)
  ELSE IF v.t = "Dictionary" THEN encode_map_to(v.v, writer)
  ELSE IF v.t = "List" THEN encode_list_to(v.v, writer)
  ELSE IF v.t = "Boolean" THEN encode_bool_to(v.v, writer)
  ELSE IF v.t = "Null" THEN encode_unit_to(writer)
  ELSE encode_bigint_to(v.v, writer)

(***************************************************************************)
(* json/encode.rs.  The text written is a sequence of bytes; the String    *)
(* returned is the sequence of the scalar values those bytes spell.        *)
(***************************************************************************)

\* the characters the JSON bridge and a JSON text tell apart
Chr ==
  [quote |-> 34, backslash |-> 92, newline |-> 10, tab |-> 9, space |-> 32,
   comma |-> 44, colon |-> 58, minus |-> 45, plus |-> 43, slash |-> 47, equals |-> 61,
   lbracket |-> 91, rbracket |-> 93, lbrace |-> 123, rbrace |-> 125,
   bom |-> 65279, n |-> 110, x |-> 120]

\* "b64:" and "0x"
PrefixB64 == <<98, 54, 52, 58>>
PrefixHex == <<48, 120>>

\* an encoder that writes uppercase hexadecimal digits
HexDigitUpper(n) == IF n < 10 THEN 48 + n ELSE 55 + n

\* hex::encode: two lowercase hexadecimal digits for each byte
HexDigit(n) == IF n < 10 THEN 48 + n ELSE 87 + n

RECURSIVE hex_encode(_)
hex_encode(bytes) ==
  IF bytes = <<>> THEN <<>>
  ELSE <<HexDigit(Head(bytes) \div 16), HexDigit(Head(bytes) % 16)>>
         \o hex_encode(Tail(bytes))

\* the character of a six-bit value in the standard base64 alphabet
B64Char(v) ==
  IF v < 26 THEN 65 + v
  ELSE IF v < 52 THEN 97 + (v - 26)
  ELSE IF v < 62 THEN 48 + (v - 52)
  ELSE IF v = 62 THEN Chr.plus ELSE Chr.slash

RECURSIVE base64_encode(_)
\* base64::engine::general_purpose::STANDARD.encode: three bytes to four characters,
\* the last group padded with '='
base64_encode(bytes) ==
  IF bytes = <<>> THEN <<>>
  ELSE IF Len(bytes) = 1 THEN
    <<B64Char(bytes[1] \div 4), B64Char((bytes[1] % 4) * 16), Chr.equals, Chr.equals>>
  ELSE IF Len(bytes) = 2 THEN
    <<B64Char(bytes[1] \div 4),
      B64Char((bytes[1] % 4) * 16 + (bytes[2] \div 16)),
      B64Char((bytes[2] % 16) * 4), Chr.equals>>
  ELSE
    <<B64Char(bytes[1] \div 4),
      B64Char((bytes[1] % 4) * 16 + (bytes[2] \div 16)),
      B64Char((bytes[2] % 16) * 4 + (bytes[3] \div 64)),
      B64Char(bytes[3] % 64)>> \o base64_encode(SubSeq(bytes, 4, Len(bytes)))

\* str::replace('\n', "\\n"): each newline becomes a backslash and an 'n'
RECURSIVE replace_newline(_)
replace_newline(s) ==
  IF s = <<>> THEN <<>>
  ELSE (IF Head(s) = Chr.newline THEN <<Chr.backslash, Chr.n>> ELSE <<Head(s)>>)
         \o replace_newline(Tail(s))

\* to_json_key_impl: the bytes written for a key
to_json_key_impl(value, options) ==
  IF value.t = "Binary" THEN
    IF options.binary_encoding = "Base64"
    THEN <<Chr.quote>> \o PrefixB64 \o base64_encode(value.v) \o <<Chr.quote>>
    ELSE <<Chr.quote>> \o PrefixHex \o hex_encode(value.v) \o <<Chr.quote>>
  ELSE <<Chr.quote>> \o as_bytes(<<Chr.bom>> \o replace_newline(value.v)) \o <<Chr.quote>>

RECURSIVE to_json_value_impl(_, _)
RECURSIVE to_json_list_items(_, _)
RECURSIVE to_json_dict_entries(_, _)

\* the for loop of the List arm: the items, a ',' after each but the last
to_json_list_items(items, options) ==
  IF items = <<>> THEN <<>>
  ELSE to_json_value_impl(Head(items), options)
         \o (IF Len(items) > 1 THEN <<Chr.comma>> ELSE <<>>)
         \o to_json_list_items(Tail(items), options)

RECURSIVE to_json_dict_entries_reversed(_, _)
\* a loop over the entries from the last to the first
to_json_dict_entries_reversed(entries, options) ==
  IF entries = <<>> THEN <<>>
  ELSE to_json_key_impl(entries[Len(entries)][1], options) \o <<Chr.colon>>
         \o to_json_value_impl(entries[Len(entries)][2], options)
         \o (IF Len(entries) > 1 THEN <<Chr.comma>> ELSE <<>>)
         \o to_json_dict_entries_reversed(SubSeq(entries, 1, Len(entries) - 1), options)

\* the while loop of the Dictionary arm: key ':' value, a ',' when more entries follow
to_json_dict_entries(entries, options) ==
  IF entries = <<>> THEN <<>>
  ELSE to_json_key_impl(Head(entries)[1], options) \o <<Chr.colon>>
         \o to_json_value_impl(Head(entries)[2], options)
         \o (IF Len(entries) > 1 THEN <<Chr.comma>> ELSE <<>>)
         \o to_json_dict_entries(Tail(entries), options)

\* to_json_value_impl: the bytes written for a value
to_json_value_impl(value, options) ==
  IF value.t = "Binary" THEN to_json_key_impl(KeyBinary(value.v), options)
  ELSE IF value.t = "Text" THEN to_json_key_impl(KeyText(value.v), options)
  ELSE IF value.t = "Boolean" THEN
    (IF value.v THEN <<116, 114, 117, 101>> ELSE <<102, 97, 108, 115, 101>>)
  ELSE IF value.t = "Number" THEN <<Chr.quote>> \o to_str_radix(value.v) \o <<Chr.quote>>
  ELSE IF value.t = "List" THEN
    <<Chr.lbracket>> \o to_json_list_items(value.v, options) \o <<Chr.rbracket>>
  ELSE IF value.t = "Dictionary" THEN
    <<Chr.lbrace>> \o to_json_dict_entries(value.v, options) \o <<Chr.rbrace>>
  ELSE <<110, 117, 108, 108>>

\* to_json_with_options: String::from_utf8(buf).unwrap()
to_json_with_options(value, options) ==
  LET text == from_utf8(to_json_value_impl(value, options))
  IN  IF text.ok THEN text.chars ELSE Panic("unwrap on Err")

\* JsonEncodeOptions::default(): the derived Default, over BinaryEncoding::default()
JsonEncodeOptionsDefault == [binary_encoding |-> "Base64"]

\* to_json
to_json(value) == to_json_with_options(value, JsonEncodeOptionsDefault)

(***************************************************************************)
(* json/decode.rs.  A serde_json::Value is a record with its kind k; the   *)
(* members of an Object are held in the order of their names, as the map   *)
(* of serde_json iterates them.                                            *)
(***************************************************************************)

JNull == [k |-> "Null"]
JBool(b) == [k |-> "Bool", val |-> b]
JNumber(literal) == [k |-> "Number", val |-> literal]
JString(s) == [k |-> "String", val |-> s]
JArray(xs) == [k |-> "Array", val |-> xs]
JObject(members) == [k |-> "Object", val |-> members]

JsonOk(v) == [tag |-> "Ok", value |-> v]
InvalidJsonString == [tag |-> "InvalidJsonString"]
InvalidJson == [tag |-> "InvalidJson"]

\* the value of a hexadecimal digit of either case, -1 for any other byte
HexVal(b) ==
  IF b >= 48 /\ b <= 57 THEN b - 48
  ELSE IF b >= 97 /\ b <= 102 THEN b - 87
  ELSE IF b >= 65 /\ b <= 70 THEN b - 55
  ELSE 0 - 1

\* hex::decode on the bytes of a str: an odd length or a byte that is no digit fails
hex_decode(s) ==
  LET bytes == as_bytes(s)
  IN  IF Len(bytes) % 2 # 0 \/ \E k \in 1..Len(bytes) : HexVal(bytes[k]) < 0
      THEN [ok |-> FALSE, bytes |-> <<>>]
      ELSE [ok |-> TRUE,
            bytes |-> [k \in 1..(Len(bytes) \div 2) |->
                         HexVal(bytes[2 * k - 1]) * 16 + HexVal(bytes[2 * k])]]

\* the six-bit value of a character of the standard alphabet, -1 for any other byte
B64Val(b) ==
  IF b >= 65 /\ b <= 90 THEN b - 65
  ELSE IF b >= 97 /\ b <= 122 THEN b - 97 + 26
  ELSE IF b >= 48 /\ b <= 57 THEN b - 48 + 52
  ELSE IF b = Chr.plus THEN 62
  ELSE IF b = Chr.slash THEN 63
  ELSE 0 - 1

RECURSIVE B64Groups(_)
\* the bytes of a run of six-bit values: four values give three bytes, a last group of
\* three gives two and of two gives one
B64Groups(vals) ==
  IF Len(vals) < 2 THEN <<>>
  ELSE IF Len(vals) = 2 THEN <<vals[1] * 4 + (vals[2] \div 16)>>
  ELSE IF Len(vals) = 3 THEN
    <<vals[1] * 4 + (vals[2] \div 16), (vals[2] % 16) * 16 + (vals[3] \div 4)>>
  ELSE
    <<vals[1] * 4 + (vals[2] \div 16), (vals[2] % 16) * 16 + (vals[3] \div 4),
      (vals[3] % 4) * 64 + vals[4]>> \o B64Groups(SubSeq(vals, 5, Len(vals)))

\* STANDARD.decode on the bytes of a str: canonical padding is required, and the bits
\* of the last character that belong to no byte must be zero
base64_decode(s) ==
  LET bytes == as_bytes(s)
      n == Len(bytes)
      pad == IF n >= 2 /\ bytes[n] = Chr.equals
             THEN (IF bytes[n - 1] = Chr.equals THEN 2 ELSE 1)
             ELSE 0
      vals == [k \in 1..(n - pad) |-> B64Val(bytes[k])]
      fail == [ok |-> FALSE, bytes |-> <<>>]
  IN  IF n % 4 # 0 THEN fail
      ELSE IF \E k \in 1..(n - pad) : vals[k] < 0 THEN fail
      ELSE IF pad = 1 /\ vals[n - 1] % 4 # 0 THEN fail
      ELSE IF pad = 2 /\ vals[n - 2] % 16 # 0 THEN fail
      ELSE [ok |-> TRUE, bytes |-> B64Groups(vals)]

\* str::strip_prefix
StartsWith(s, prefix) ==
  Len(s) >= Len(prefix) /\ SubSeq(s, 1, Len(prefix)) = prefix

StripPrefix(s, prefix) == SubSeq(s, Len(prefix) + 1, Len(s))

\* a classification that takes a string without a known prefix for a text
from_json_key_text_by_default(s) ==
  IF StartsWith(s, PrefixB64) THEN
    LET binary == base64_decode(StripPrefix(s, PrefixB64))
    IN  IF binary.ok THEN [ok |-> TRUE, key |-> KeyBinary(binary.bytes)]
        ELSE [ok |-> FALSE, key |-> KeyBinary(<<>>)]
  ELSE IF StartsWith(s, PrefixHex) THEN
    LET binary == hex_decode(StripPrefix(s, PrefixHex))
    IN  IF binary.ok THEN [ok |-> TRUE, key |-> KeyBinary(binary.bytes)]
        ELSE [ok |-> FALSE, key |-> KeyBinary(<<>>)]
  ELSE IF StartsWith(s, <<Chr.bom>>) THEN
    [ok |-> TRUE, key |-> KeyText(StripPrefix(s, <<Chr.bom>>))]
  ELSE [ok |-> TRUE, key |-> KeyText(s)]

\* from_json_key_impl: Ok(key) or Err(InvalidJson)
from_json_key_impl(s) ==
  IF StartsWith(s, PrefixB64) THEN
    LET binary == base64_decode(StripPrefix(s, PrefixB64))
    IN  IF binary.ok THEN [ok |-> TRUE, key |-> KeyBinary(binary.bytes)]
        ELSE [ok |-> FALSE, key |-> KeyBinary(<<>>)]
  ELSE IF StartsWith(s, PrefixHex) THEN
    LET binary == hex_decode(StripPrefix(s, PrefixHex))
    IN  IF binary.ok THEN [ok |-> TRUE, key |-> KeyBinary(binary.bytes)]
        ELSE [ok |-> FALSE, key |-> KeyBinary(<<>>)]
  ELSE IF StartsWith(s, <<Chr.bom>>) THEN
    [ok |-> TRUE, key |-> KeyText(StripPrefix(s, <<Chr.bom>>))]
  ELSE [ok |-> FALSE, key |-> KeyBinary(<<>>)]

\* s.parse::<BigInt>() for a string of digits and '-': one optional leading '-', then
\* one or more digits
parse_bigint(s) ==
  LET digits == IF s # <<>> /\ Head(s) = Chr.minus THEN Tail(s) ELSE s
  IN  IF digits = <<>> \/ \E k \in 1..Len(digits) : ~IsDigit(digits[k])
      THEN [ok |-> FALSE, number |-> BigIntFrom(0)]
      ELSE [ok |-> TRUE, number |-> BigIntFromStr(s)]

RECURSIVE from_json(_)
RECURSIVE from_json_array(_)
RECURSIVE from_json_object(_, _)

\* arr.iter().map(from_json).try_collect(): the values, or the first error
from_json_array(arr) ==
  IF arr = <<>> THEN JsonOk(<<>>)
  ELSE LET first == from_json(Head(arr))
       IN  IF first.tag # "Ok" THEN first
           ELSE LET rest == from_json_array(Tail(arr))
                IN  IF rest.tag # "Ok" THEN rest
                    ELSE JsonOk(<<first.value>> \o rest.value)

\* the Object arm with from_json(v).unwrap_or(Null) in place of from_json(v)?
from_json_object_defaulting_values(members, map) ==
  IF members = <<>> THEN JsonOk(Dictionary(map))
  ELSE LET key == from_json_key_impl(Head(members)[1])
       IN  IF ~key.ok THEN InvalidJson
           ELSE LET value == from_json(Head(members)[2])
                IN  from_json_object(Tail(members),
                      MapInsert(map, key.key,
                                IF value.tag = "Ok" THEN value.value ELSE Null).map)

\* the Object arm with map.entry(key).or_insert(value): the first value under a key stays
from_json_object_keeping_first(members, map) ==
  IF members = <<>> THEN JsonOk(Dictionary(map))
  ELSE LET key == from_json_key_impl(Head(members)[1])
       IN  IF ~key.ok THEN InvalidJson
           ELSE LET value == from_json(Head(members)[2])
                IN  IF value.tag # "Ok" THEN value
                    ELSE from_json_object(Tail(members),
                           IF MapFind(map, key.key) # 0 THEN map
                           ELSE MapInsert(map, key.key, value.value).map)

\* the for loop of the Object arm: map.insert(from_json_key_impl(k)?, from_json(v)?)
from_json_object(members, map) ==
  IF members = <<>> THEN JsonOk(Dictionary(map))
  ELSE LET key == from_json_key_impl(Head(members)[1])
       IN  IF ~key.ok THEN InvalidJson
           ELSE LET value == from_json(Head(members)[2])
                IN  IF value.tag # "Ok" THEN value
                    ELSE from_json_object(Tail(members),
                                          MapInsert(map, key.key, value.value).map)

\* the String arm of from_json
from_json_str(s) ==
  LET key == from_json_key_impl(s)
  IN  IF key.ok THEN
        JsonOk(IF key.key.t = "Text" THEN Text(key.key.v) ELSE Binary(key.key.v))
      ELSE IF \A k \in 1..Len(s) : s[k] < 128 /\ (IsDigit(s[k]) \/ s[k] = Chr.minus) THEN
        (IF parse_bigint(s).ok THEN JsonOk(Number(parse_bigint(s).number)) ELSE InvalidJson)
      ELSE InvalidJson

from_json(value) ==
  IF value.k = "Null" THEN JsonOk(Null)
  ELSE IF value.k = "Bool" THEN JsonOk(Boolean(value.val))
  ELSE IF value.k = "Number" THEN InvalidJson
  ELSE IF value.k = "Array" THEN
    LET items == from_json_array(value.val)
    IN  IF items.tag # "Ok" THEN items ELSE JsonOk(List(items.value))
  ELSE IF value.k = "Object" THEN from_json_object(value.val, <<>>)
  ELSE from_json_str(value.val)

(***************************************************************************)
(* serde_json::from_str, as json/decode.rs calls it: the JSON grammar of   *)
(* RFC 8259 over the characters of a str, positions counted from 1.  A     *)
(* parse is [ok, value, pos]: the value and the position after it.         *)
(***************************************************************************)

ParseFail == [ok |-> FALSE, value |-> JNull, pos |-> 0]
Parsed(v, p) == [ok |-> TRUE, value |-> v, pos |-> p]

IsWs(c) == c \in {32, 9, 10, 13}

RECURSIVE SkipWs(_, _)
SkipWs(s, p) == IF p <= Len(s) /\ IsWs(s[p]) THEN SkipWs(s, p + 1) ELSE p

\* the word stands at position p
Literal(s, p, word) ==
  p + Len(word) - 1 <= Len(s) /\ SubSeq(s, p, p + Len(word) - 1) = word

\* the value of the four hexadecimal digits at p..p+3, -1 when they are not that
Hex4(s, p) ==
  IF p + 3 > Len(s) \/ \E k \in 0..3 : s[p + k] >= 128 \/ HexVal(s[p + k]) < 0
  THEN 0 - 1
  ELSE HexVal(s[p]) * 4096 + HexVal(s[p + 1]) * 256 + HexVal(s[p + 2]) * 16 + HexVal(s[p + 3])

\* the character a one-letter escape stands for, -1 when the letter is no escape
EscapeOf(c) ==
  IF c \in {Chr.quote, Chr.backslash, Chr.slash} THEN c
  ELSE IF c = 98 THEN 8
  ELSE IF c = 102 THEN 12
  ELSE IF c = Chr.n THEN 10
  ELSE IF c = 114 THEN 13
  ELSE IF c = 116 THEN 9
  ELSE 0 - 1

RECURSIVE ParseString(_, _, _)
\* a string from the position after its opening quote: a raw control character, an
\* unknown escape, a lone surrogate and the end of the text before the closing quote
\* are errors
ParseString(s, p, acc) ==
  IF p > Len(s) THEN ParseFail
  ELSE IF s[p] = Chr.quote THEN Parsed(acc, p + 1)
  ELSE IF s[p] < 32 THEN ParseFail
  ELSE IF s[p] # Chr.backslash THEN ParseString(s, p + 1, Append(acc, s[p]))
  ELSE IF p + 1 > Len(s) THEN ParseFail
  ELSE IF s[p + 1] = 117 THEN
    LET hi == Hex4(s, p + 2)
    IN  IF hi < 0 \/ (hi >= 56320 /\ hi <= 57343) THEN ParseFail
        ELSE IF hi < 55296 \/ hi > 57343 THEN ParseString(s, p + 6, Append(acc, hi))
        ELSE IF ~Literal(s, p + 6, <<Chr.backslash, 117>>) THEN ParseFail
        ELSE LET lo == Hex4(s, p + 8)
             IN  IF lo < 56320 \/ lo > 57343 THEN ParseFail
                 ELSE ParseString(s, p + 12,
                                  Append(acc, 65536 + (hi - 55296) * 1024 + (lo - 56320)))
  ELSE IF EscapeOf(s[p + 1]) < 0 THEN ParseFail
  ELSE ParseString(s, p + 2, Append(acc, EscapeOf(s[p + 1])))

RECURSIVE DigitsEnd(_, _)
\* the position after the run of digits from p
DigitsEnd(s, p) == IF p <= Len(s) /\ s[p] < 128 /\ IsDigit(s[p]) THEN DigitsEnd(s, p + 1) ELSE p

\* the values of the digits among the characters
DigitValues(chars) ==
  LET ds == SelectSeq(chars, LAMBDA c : c < 128 /\ IsDigit(c))
  IN  [q \in 1..Len(ds) |-> ds[q] - 48]

\* the significant digits of a literal: its digits before any exponent, without the
\* zeros in front
SignificantDigits(lit, expAt) ==
  StripZeros(DigitValues(SubSeq(lit, 1, expAt - 1)))

\* f64_from_parts answers NumberOutOfRange for a finite literal that would become an
\* infinity: a significand that is not zero, and a value at or above the rounding
\* limit of f64, 1.7976931348623158e308 (compared on the first 17 digits).  lit is
\* the literal without its sign, fracAt and expAt the positions of its '.' and its
\* 'e' (one past the end when it has none).
NumberOutOfRange(lit, fracAt, expAt) ==
  LET digits == SignificantDigits(lit, expAt)
      intDigits == StripZeros(DigitValues(SubSeq(lit, 1, fracAt - 1)))
      negExp == expAt + 1 <= Len(lit) /\ lit[expAt + 1] = Chr.minus
      exp == MagValue(DigitValues(SubSeq(lit, expAt + 1, Len(lit))))
      \* the power of ten of the first significant digit, for a literal of one or more
      \* whole digits (a literal below 1 is in range unless its exponent is huge, and
      \* then the zeros after its '.' count against the exponent)
      whole == intDigits # <<0>>
      fracDigits == DigitValues(SubSeq(lit, fracAt + 1, expAt - 1))
      zerosAfterPoint ==
        IF whole \/ fracDigits = <<>> THEN 0
        ELSE Len(fracDigits) - Len(StripZeros(fracDigits))
      lead == IF whole THEN exp + Len(intDigits) - 1 ELSE exp - zerosAfterPoint - 1
  IN  /\ digits # <<0>>
      /\ ~negExp
      /\ \/ lead > 308
         \/ /\ lead = 308
            /\ SliceCmp(digits, <<1, 7, 9, 7, 6, 9, 3, 1, 3, 4, 8, 6, 2, 3, 1, 5, 8>>) # "Less"

\* a number from position p: '-'? int frac? exp?
ParseNumber(s, p) ==
  LET int == IF p <= Len(s) /\ s[p] = Chr.minus THEN p + 1 ELSE p
      intEnd == IF int <= Len(s) /\ s[int] = 48 THEN int + 1 ELSE DigitsEnd(s, int)
      fracEnd == IF intEnd <= Len(s) /\ s[intEnd] = 46 THEN DigitsEnd(s, intEnd + 1)
                 ELSE intEnd
      fracOk == fracEnd = intEnd \/ fracEnd > intEnd + 1
      sign == IF fracEnd + 1 <= Len(s) /\ s[fracEnd + 1] \in {Chr.plus, Chr.minus}
              THEN fracEnd + 2 ELSE fracEnd + 1
      hasExp == fracEnd <= Len(s) /\ s[fracEnd] \in {69, 101}
      expEnd == IF hasExp THEN DigitsEnd(s, sign) ELSE fracEnd
      expOk == ~hasExp \/ expEnd > sign
  IN  IF intEnd = int \/ ~fracOk \/ ~expOk THEN ParseFail
      ELSE IF NumberOutOfRange(SubSeq(s, int, expEnd - 1), intEnd - int + 1,
                               fracEnd - int + 1) THEN ParseFail
      ELSE Parsed(JNumber(SubSeq(s, p, expEnd - 1)), expEnd)

\* Map<String, Value>::insert: the members stay in the order of their names, and a
\* name already present keeps its place and takes the new value
JsonMapInsert(members, name, value) ==
  IF \E q \in 1..Len(members) : members[q][1] = name
  THEN [q \in 1..Len(members) |->
          IF members[q][1] = name THEN <<name, value>> ELSE members[q]]
  ELSE LET below == Cardinality({q \in 1..Len(members) :
                                   SliceCmp(as_bytes(members[q][1]), as_bytes(name)) = "Less"})
       IN  SubSeq(members, 1, below) \o <<<<name, value>>>>
             \o SubSeq(members, below + 1, Len(members))

\* the remaining_depth a Deserializer of serde_json starts with
RecursionLimit == 128

RECURSIVE ParseValue(_, _, _)
RECURSIVE ParseArrayItems(_, _, _, _)
RECURSIVE ParseObjectMembers(_, _, _, _)

\* the items of an array from the position of an item: value, then ',' or ']'
ParseArrayItems(s, p, acc, remaining_depth) ==
  LET item == ParseValue(s, p, remaining_depth)
      q == SkipWs(s, item.pos)
  IN  IF ~item.ok \/ q > Len(s) THEN ParseFail
      ELSE IF s[q] = Chr.rbracket THEN Parsed(JArray(Append(acc, item.value)), q + 1)
      ELSE IF s[q] = Chr.comma THEN
        ParseArrayItems(s, q + 1, Append(acc, item.value), remaining_depth)
      ELSE ParseFail

\* the members of an object from the position of a name: string ':' value, then ','
\* or '}'
ParseObjectMembers(s, p, members, remaining_depth) ==
  LET n == SkipWs(s, p)
  IN  IF n > Len(s) \/ s[n] # Chr.quote THEN ParseFail
      ELSE
        LET name == ParseString(s, n + 1, <<>>)
            c == SkipWs(s, name.pos)
        IN  IF ~name.ok \/ c > Len(s) \/ s[c] # Chr.colon THEN ParseFail
            ELSE
              LET value == ParseValue(s, c + 1, remaining_depth)
                  q == SkipWs(s, value.pos)
              IN  IF ~value.ok \/ q > Len(s) THEN ParseFail
                  ELSE
                    LET grown == JsonMapInsert(members, name.value, value.value)
                    IN  IF s[q] = Chr.rbrace THEN Parsed(JObject(grown), q + 1)
                        ELSE IF s[q] = Chr.comma THEN
                          ParseObjectMembers(s, q + 1, grown, remaining_depth)
                        ELSE ParseFail

\* one JSON value from position p, after any whitespace; check_recursion! takes one
\* from remaining_depth on entering an array or an object, and fails when none is left
ParseValue(s, p, remaining_depth) ==
  LET q == SkipWs(s, p)
  IN  IF q > Len(s) THEN ParseFail
      ELSE IF s[q] = Chr.n THEN
        (IF Literal(s, q, <<110, 117, 108, 108>>) THEN Parsed(JNull, q + 4) ELSE ParseFail)
      ELSE IF s[q] = 116 THEN
        (IF Literal(s, q, <<116, 114, 117, 101>>) THEN Parsed(JBool(TRUE), q + 4)
         ELSE ParseFail)
      ELSE IF s[q] = 102 THEN
        (IF Literal(s, q, <<102, 97, 108, 115, 101>>) THEN Parsed(JBool(FALSE), q + 5)
         ELSE ParseFail)
      ELSE IF s[q] = Chr.quote THEN
        LET str == ParseString(s, q + 1, <<>>)
        IN  IF str.ok THEN Parsed(JString(str.value), str.pos) ELSE ParseFail
      ELSE IF s[q] \in {Chr.lbracket, Chr.lbrace} /\ remaining_depth - 1 = 0 THEN ParseFail
      ELSE IF s[q] = Chr.lbracket THEN
        LET r == SkipWs(s, q + 1)
        IN  IF r <= Len(s) /\ s[r] = Chr.rbracket THEN Parsed(JArray(<<>>), r + 1)
            ELSE ParseArrayItems(s, q + 1, <<>>, remaining_depth - 1)
      ELSE IF s[q] = Chr.lbrace THEN
        LET r == SkipWs(s, q + 1)
        IN  IF r <= Len(s) /\ s[r] = Chr.rbrace THEN Parsed(JObject(<<>>), r + 1)
            ELSE ParseObjectMembers(s, q + 1, <<>>, remaining_depth - 1)
      ELSE IF s[q] = Chr.minus \/ (s[q] < 128 /\ IsDigit(s[q])) THEN ParseNumber(s, q)
      ELSE ParseFail

\* serde_json::from_str: one value, and nothing but whitespace after it
from_str(s) ==
  LET r == ParseValue(s, 1, RecursionLimit)
  IN  IF r.ok /\ SkipWs(s, r.pos) > Len(s) THEN r ELSE ParseFail

\* from_json_string
from_json_string(s) ==
  LET json == from_str(s)
  IN  IF ~json.ok THEN InvalidJsonString ELSE from_json(json.value)

(***************************************************************************)
(* Inputs: the values, keys and byte buffers the operations are applied to *)
(***************************************************************************)

\* longest byte string and longest text among the leaf values
MaxLen == 2
\* most elements of a list and most entries of a dictionary among the values
MaxItems == 2
\* most entries inserted into a dictionary by the dictionary specification
MaxEntries == 3
\* longest buffer built from arbitrary bytes
MaxRawLen == 3
\* largest start offset handed to decode_impl
MaxStart == 1
\* most encoded items between the lead byte and the end of a wire production
MaxWireItems == 4
\* most bytes appended after an encoded value
MaxTrail == 2
\* latest call to the sink that is made to fail
MaxFailAt == 13
\* longest text among the texts rendered as JSON
MaxJsonTextLen == 2
\* longest rest after the prefix of a JSON string handed to from_json
MaxRestLen == 4
\* most items of an array among the JSON documents
MaxJsonItems == 2

SeqsUpTo(S, n) == UNION {[1..k -> S] : k \in 0..n}

\* payload bytes: 'e' (the terminator byte) and 0xC3 (not UTF-8 on its own)
BinBytes == {101, 195}
\* characters: 'a' (one byte) and U+00E9 (two bytes, C3 A9)
TextChars == {97, 233}

NumSamples == {BigIntFrom(n) : n \in {0 - 12, 0 - 1, 0, 7, 10}}

Leaves ==
  {Binary(b) : b \in SeqsUpTo(BinBytes, MaxLen)}
    \cup {Text(s) : s \in SeqsUpTo(TextChars, MaxLen)}
    \cup {Boolean(b) : b \in BOOLEAN}
    \cup {Number(n) : n \in NumSamples}
    \cup {Null}

\* payloads whose length prefix has two digits: ten bytes, and five characters in ten bytes
LongLeaves == {Binary([k \in 1..10 |-> 101]), Text([k \in 1..5 |-> 233])}

\* keys: empty, a strict prefix of another, a high byte, and the same bytes as Binary and Text
DictKeys ==
  {KeyBinary(<<>>), KeyBinary(<<97>>), KeyBinary(<<97, 97>>), KeyBinary(<<195>>),
   KeyText(<<>>), KeyText(<<97>>), KeyText(<<233>>)}

RECURSIVE FromEntries(_)
\* the map after inserting the entries of a sequence, first to last
FromEntries(entries) ==
  IF entries = <<>> THEN <<>>
  ELSE MapInsert(FromEntries(SubSeq(entries, 1, Len(entries) - 1)),
                 entries[Len(entries)][1], entries[Len(entries)][2]).map

DistinctKeys(entries) ==
  \A p, q \in 1..Len(entries) : p # q => entries[p][1] # entries[q][1]

\* every map of at most n entries with keys from K and values from V
MapsOver(K, V, n) ==
  {FromEntries(es) : es \in {x \in SeqsUpTo(K \X V, n) : DistinctKeys(x)}}

DictVals == {Null, Number(BigIntFrom(0 - 1)), Text(<<233>>), List(<<Boolean(TRUE)>>)}

Elems ==
  {Binary(<<101>>), Text(<<233>>), Boolean(FALSE), Number(BigIntFrom(0 - 12)), Null,
   List(<<>>), Dictionary(<<>>), List(<<Null>>),
   Dictionary(FromEntries(<<<<KeyText(<<97>>), Binary(<<101>>)>>>>))}

\* values nested three deep
DeepValues ==
  {List(<<Dictionary(FromEntries(<<<<KeyBinary(<<>>), List(<<Text(<<233>>)>>)>>>>))>>),
   Dictionary(FromEntries(<<<<KeyText(<<233>>),
                             List(<<Number(BigIntFrom(0 - 1)), List(<<>>)>>)>>>>))}

Values ==
  Leaves \cup LongLeaves \cup DeepValues
    \cup {List(xs) : xs \in SeqsUpTo(Elems, MaxItems)}
    \cup {Dictionary(m) : m \in MapsOver(DictKeys, DictVals, MaxItems)}

\* bytes that follow a value in a buffer: a digit, ':' and 'e'
TrailBytes == {49, Ascii.colon, Ascii.e}

\* the byte sequences appended after an encoded value: at least one byte
Trailers == SeqsUpTo(TrailBytes, MaxTrail) \ {<<>>}

NoOutcome == [tag |-> "none"]

(***************************************************************************)
(* Spec: a value is encoded into a vector, the vector is decoded, either   *)
(* whole or cut to a proper prefix first.                                  *)
(***************************************************************************)

Init ==
  /\ pc = "value"
  /\ input \in Values
  /\ buffer = <<>>
  /\ start = 0
  /\ outcome = NoOutcome
  /\ pendingA = <<>> /\ pendingB = <<>>
  /\ mapA = <<>> /\ mapB = <<>>
  /\ bufA = <<>> /\ bufB = <<>>

\* input.encode(&mut buffer)
EncodeValue ==
  /\ pc = "value"
  /\ buffer' = EncodeToVec(input)
  /\ pc' = "encoded"
  /\ UNCHANGED <<input, start, outcome, pendingA, pendingB, mapA, mapB, bufA, bufB>>

\* the caller keeps only the first n bytes, n less than the length
Truncate ==
  /\ pc = "encoded"
  /\ \E n \in 0..(Len(buffer) - 1) : buffer' = SubSeq(buffer, 1, n)
  /\ pc' = "truncated"
  /\ UNCHANGED <<input, start, outcome, pendingA, pendingB, mapA, mapB, bufA, bufB>>

\* the caller's buffer holds more bytes after the encoded value
AppendTrailing ==
  /\ pc = "encoded"
  /\ \E t \in Trailers : buffer' = buffer \o t
  /\ pc' = "extended"
  /\ UNCHANGED <<input, start, outcome, pendingA, pendingB, mapA, mapB, bufA, bufB>>

\* buffer.decode()
DecodeBuffer ==
  /\ pc \in {"encoded", "truncated", "extended"}
  /\ outcome' = decode(buffer)
  /\ pc' = (IF pc = "encoded" THEN "decoded"
            ELSE IF pc = "truncated" THEN "decoded_truncated" ELSE "decoded_extended")
  /\ UNCHANGED <<input, buffer, start, pendingA, pendingB, mapA, mapB, bufA, bufB>>

Next == EncodeValue \/ Truncate \/ AppendTrailing \/ DecodeBuffer

Spec == Init /\ [][Next]_vars

(***************************************************************************)
(* SpecEmbed: an encoded value inside a larger buffer, decoded by          *)
(* decode_impl from the offset where it starts.                            *)
(***************************************************************************)

\* the bytes before the value: 'l' and '1', up to MaxStart of them
Prefixes == SeqsUpTo({Ascii.l, 49}, MaxStart)

\* the bytes after the value: none, an 'e', or "1:"
EmbedTrailers == {<<>>, <<Ascii.e>>, <<49, Ascii.colon>>}

\* the caller's buffer: bytes, the encoded value, bytes; decode_impl is given the
\* offset of the value
EmbedValue ==
  /\ pc = "value"
  /\ \E p \in Prefixes, t \in EmbedTrailers :
       /\ buffer' = p \o EncodeToVec(input) \o t
       /\ start' = Len(p)
  /\ pc' = "embedded"
  /\ UNCHANGED <<input, outcome, pendingA, pendingB, mapA, mapB, bufA, bufB>>

\* decode_impl(&buffer, start)
DecodeEmbedded ==
  /\ pc = "embedded"
  /\ outcome' = decode_impl(buffer, start)
  /\ pc' = "embedded_decoded"
  /\ UNCHANGED <<input, buffer, start, pendingA, pendingB, mapA, mapB, bufA, bufB>>

NextEmbed == EmbedValue \/ DecodeEmbedded

SpecEmbed == Init /\ [][NextEmbed]_vars

(***************************************************************************)
(* SpecDict: the same entries are inserted into two dictionaries in two    *)
(* orders, and both dictionaries are encoded.                              *)
(***************************************************************************)

\* the value stored under a key: one that differs from key to key
EntryValue(k) ==
  IF k.t = "Binary" THEN Number(BigIntFrom(Len(k.v))) ELSE Text(k.v)

\* the insertion orders: sequences of entries with distinct keys
EntryOrders ==
  {[p \in 1..Len(ks) |-> <<ks[p], EntryValue(ks[p])>>] :
     ks \in {x \in SeqsUpTo(DictKeys, MaxEntries) :
               \A p, q \in 1..Len(x) : p # q => x[p] # x[q]}}

\* every order of the same entries
Perms(es) ==
  {[p \in 1..Len(es) |-> es[f[p]]] :
     f \in {g \in [1..Len(es) -> 1..Len(es)] :
              \A p, q \in 1..Len(es) : p # q => g[p] # g[q]}}

InitDict ==
  /\ pc = "insert"
  /\ pendingA \in EntryOrders
  /\ pendingB \in Perms(pendingA)
  /\ input = [orderA |-> pendingA, orderB |-> pendingB]
  /\ mapA = <<>> /\ mapB = <<>>
  /\ bufA = <<>> /\ bufB = <<>>
  /\ buffer = <<>>
  /\ start = 0
  /\ outcome = NoOutcome

\* dict_a.insert(key, value) for the next entry of the first order
InsertA ==
  /\ pc = "insert"
  /\ pendingA # <<>>
  /\ mapA' = MapInsert(mapA, Head(pendingA)[1], Head(pendingA)[2]).map
  /\ pendingA' = Tail(pendingA)
  /\ UNCHANGED <<pc, input, buffer, start, outcome, pendingB, mapB, bufA, bufB>>

\* dict_b.insert(key, value) for the next entry of the second order
InsertB ==
  /\ pc = "insert"
  /\ pendingA = <<>>
  /\ pendingB # <<>>
  /\ mapB' = MapInsert(mapB, Head(pendingB)[1], Head(pendingB)[2]).map
  /\ pendingB' = Tail(pendingB)
  /\ UNCHANGED <<pc, input, buffer, start, outcome, pendingA, mapA, bufA, bufB>>

\* both dictionaries are encoded into vectors; outcome records what compare_key
\* answers for each pair of the keys inserted (by position in the first order)
EncodeMaps ==
  /\ pc = "insert"
  /\ pendingA = <<>> /\ pendingB = <<>>
  /\ bufA' = EncodeToVec(Dictionary(mapA))
  /\ bufB' = EncodeToVec(Dictionary(mapB))
  /\ outcome' = [tag |-> "compared",
                 cmp |-> [pq \in (1..Len(input.orderA)) \X (1..Len(input.orderA)) |->
                            compare_key(input.orderA[pq[1]][1], input.orderA[pq[2]][1])]]
  /\ pc' = "maps_encoded"
  /\ UNCHANGED <<input, buffer, start, pendingA, pendingB, mapA, mapB>>

\* to_json(&BencodexValue::Dictionary(dict_a))
MapToJson ==
  /\ pc = "maps_encoded"
  /\ buffer' = to_json(Dictionary(mapA))
  /\ pc' = "maps_json"
  /\ UNCHANGED <<input, start, outcome, pendingA, pendingB, mapA, mapB, bufA, bufB>>

NextDict == InsertA \/ InsertB \/ EncodeMaps \/ MapToJson

SpecDict == InitDict /\ [][NextDict]_vars

(***************************************************************************)
(* SpecSink: a value is encoded into a sink that fails one of the calls    *)
(* made to it, or none.                                                    *)
(***************************************************************************)

\* no failing call, or the n-th call fails
ThrowCounts == {{}} \cup {{n} : n \in 1..MaxFailAt}

InitSink ==
  /\ pc = "sink_ready"
  /\ input \in [value : Values, throw_counts : ThrowCounts]
  /\ buffer = <<>>
  /\ start = 0
  /\ outcome = NoOutcome
  /\ pendingA = <<>> /\ pendingB = <<>>
  /\ mapA = <<>> /\ mapB = <<>>
  /\ bufA = <<>> /\ bufB = <<>>

\* input.value.encode(&mut writer): the result, the calls the writer counted and the
\* bytes it holds
EncodeToSink ==
  /\ pc = "sink_ready"
  /\ LET r == encode_to(input.value, Sink(input.throw_counts))
     IN  /\ outcome' = [tag |-> IF r.ok THEN "Ok" ELSE "Err",
                        call_count |-> r.writer.call_count]
         /\ buffer' = r.writer.written
  /\ pc' = "sink_done"
  /\ UNCHANGED <<input, start, pendingA, pendingB, mapA, mapB, bufA, bufB>>

NextSink == EncodeToSink

SpecSink == InitSink /\ [][NextSink]_vars

(***************************************************************************)
(* SpecJson: a value is rendered as JSON text with one of the two binary   *)
(* encodings, and the text is read back.                                   *)
(***************************************************************************)

\* characters of a text that a JSON string cannot hold as they are, the newline the
\* bridge replaces, and 'n'
JsonTextChars == {Chr.quote, Chr.backslash, Chr.newline, Chr.tab, Chr.n}

JsonTexts == SeqsUpTo(JsonTextChars, MaxJsonTextLen)

\* the values of the codec's population, texts and text keys over JsonTextChars, and
\* byte strings of one to four bytes
JsonValues ==
  Values
    \cup {Text(s) : s \in JsonTexts}
    \cup {Dictionary(<<<<KeyText(s), Null>>>>) : s \in JsonTexts}
    \cup {Binary(SubSeq(<<0, 255, 16, 97>>, 1, n)) : n \in 1..4}

JsonOptions == {[binary_encoding |-> "Base64"], [binary_encoding |-> "Hex"]}

InitJson ==
  /\ pc = "json_value"
  /\ input \in [value : JsonValues, options : JsonOptions]
  /\ buffer = <<>>
  /\ start = 0
  /\ outcome = NoOutcome
  /\ pendingA = <<>> /\ pendingB = <<>>
  /\ mapA = <<>> /\ mapB = <<>>
  /\ bufA = <<>> /\ bufB = <<>>

\* to_json_with_options(&input.value, input.options)
ToJson ==
  /\ pc = "json_value"
  /\ buffer' = to_json_with_options(input.value, input.options)
  /\ pc' = "json_written"
  /\ UNCHANGED <<input, start, outcome, pendingA, pendingB, mapA, mapB, bufA, bufB>>

\* from_json_string(&buffer)
FromJsonString ==
  /\ pc = "json_written"
  /\ outcome' = from_json_string(buffer)
  /\ pc' = "json_read"
  /\ UNCHANGED <<input, buffer, start, pendingA, pendingB, mapA, mapB, bufA, bufB>>

\* to_json(&input.value)
ToJsonDefault ==
  /\ pc = "json_value"
  /\ buffer' = to_json(input.value)
  /\ pc' = "json_default"
  /\ UNCHANGED <<input, start, outcome, pendingA, pendingB, mapA, mapB, bufA, bufB>>

NextJson == ToJson \/ ToJsonDefault \/ FromJsonString

SpecJson == InitJson /\ [][NextJson]_vars

(***************************************************************************)
(* SpecJsonString: from_json on a JSON string.                             *)
(***************************************************************************)

\* '0' '7' '-' 'x' 'a' 'Q' 'Y' '=' and 'g'
RestChars == {48, 55, Chr.minus, Chr.x, 97, 81, 89, Chr.equals, 103}

\* a rest of up to MaxRestLen characters after "b64:", "0x", U+FEFF or nothing
JsonStrings ==
  {prefix \o rest :
     prefix \in {<<>>, PrefixB64, PrefixHex, <<Chr.bom>>},
     rest \in SeqsUpTo(RestChars, MaxRestLen)}

InitJsonString ==
  /\ pc = "json_string"
  /\ input \in JsonStrings
  /\ buffer = <<>>
  /\ start = 0
  /\ outcome = NoOutcome
  /\ pendingA = <<>> /\ pendingB = <<>>
  /\ mapA = <<>> /\ mapB = <<>>
  /\ bufA = <<>> /\ bufB = <<>>

\* from_json(&Value::String(input))
FromJsonValue ==
  /\ pc = "json_string"
  /\ outcome' = from_json(JString(input))
  /\ pc' = "classified"
  /\ UNCHANGED <<input, buffer, start, pendingA, pendingB, mapA, mapB, bufA, bufB>>

NextJsonString == FromJsonValue

SpecJsonString == InitJsonString /\ [][NextJsonString]_vars

(***************************************************************************)
(* SpecJsonDoc: from_json on a JSON document, and from_json_string on the  *)
(* text of the document, whole or with one character left out.             *)
(***************************************************************************)

\* "12", "0x61", "b64:YQ==", U+FEFF "a" and "zz"
DocStrings ==
  {<<49, 50>>, PrefixHex \o <<54, 49>>, PrefixB64 \o <<89, 81, 61, 61>>,
   <<Chr.bom, 97>>, <<122, 122>>}

\* null, true, the numbers 1 and -2.5, and the strings
DocLeaves ==
  {JNull, JBool(TRUE), JNumber(<<49>>), JNumber(<<Chr.minus, 50, 46, 53>>)}
    \cup {JString(s) : s \in DocStrings}

DocInner ==
  DocLeaves
    \cup {JArray(<<>>), JArray(<<JNumber(<<49>>)>>)}
    \cup {JObject(<<<<PrefixHex \o <<54, 49>>, v>>>>) : v \in {JNull, JNumber(<<49>>)}}

\* documents that a text can hold and a serde_json::Value cannot: the literal 1e999,
\* alone and in an array
TextOnlyDocs ==
  {JNumber(<<49, 101, 57, 57, 57>>), JArray(<<JNumber(<<49, 101, 57, 57, 57>>)>>)}

\* arrays of up to MaxJsonItems items, objects of one or two members, and a number
\* three levels down in arrays and in objects
JsonDocs ==
  DocInner
    \cup {JArray(a) : a \in SeqsUpTo(DocInner, MaxJsonItems)}
    \cup {JObject(JsonMapInsert(<<<<n1, v1>>>>, n2, v2)) :
            n1 \in DocStrings, n2 \in DocStrings, v1 \in DocInner, v2 \in DocInner}
    \cup {JArray(<<JArray(<<JArray(<<JNumber(<<49>>)>>)>>)>>),
          JObject(<<<<<<122, 122>>,
                      JObject(<<<<<<122, 122>>, JArray(<<JNumber(<<49>>)>>)>>>>)>>>>)}

RECURSIVE WriteJson(_)
RECURSIVE WriteJsonItems(_)
RECURSIVE WriteJsonMembers(_)

WriteJsonItems(items) ==
  IF items = <<>> THEN <<>>
  ELSE WriteJson(Head(items))
         \o (IF Len(items) > 1 THEN <<Chr.comma>> ELSE <<>>)
         \o WriteJsonItems(Tail(items))

WriteJsonMembers(members) ==
  IF members = <<>> THEN <<>>
  ELSE <<Chr.quote>> \o Head(members)[1] \o <<Chr.quote, Chr.colon>>
         \o WriteJson(Head(members)[2])
         \o (IF Len(members) > 1 THEN <<Chr.comma>> ELSE <<>>)
         \o WriteJsonMembers(Tail(members))

\* the compact JSON text of a document whose strings need no escape
WriteJson(value) ==
  IF value.k = "Null" THEN <<110, 117, 108, 108>>
  ELSE IF value.k = "Bool" THEN
    (IF value.val THEN <<116, 114, 117, 101>> ELSE <<102, 97, 108, 115, 101>>)
  ELSE IF value.k = "Number" THEN value.val
  ELSE IF value.k = "String" THEN <<Chr.quote>> \o value.val \o <<Chr.quote>>
  ELSE IF value.k = "Array" THEN
    <<Chr.lbracket>> \o WriteJsonItems(value.val) \o <<Chr.rbracket>>
  ELSE <<Chr.lbrace>> \o WriteJsonMembers(value.val) \o <<Chr.rbrace>>

\* the text without its character at position cut; the whole text when cut is 0
WithoutChar(text, cut) ==
  IF cut = 0 THEN text ELSE SubSeq(text, 1, cut - 1) \o SubSeq(text, cut + 1, Len(text))

InitJsonDoc ==
  /\ pc = "doc"
  /\ input \in JsonDocs \cup TextOnlyDocs
  /\ buffer = <<>>
  /\ start = 0
  /\ outcome = NoOutcome
  /\ pendingA = <<>> /\ pendingB = <<>>
  /\ mapA = <<>> /\ mapB = <<>>
  /\ bufA = <<>> /\ bufB = <<>>

\* from_json(&input)
FromJsonDoc ==
  /\ pc = "doc"
  /\ input \notin TextOnlyDocs
  /\ outcome' = from_json(input)
  /\ pc' = "doc_mapped"
  /\ UNCHANGED <<input, buffer, start, pendingA, pendingB, mapA, mapB, bufA, bufB>>

\* the caller's text: the document written out, whole or one character short
WriteDoc ==
  /\ pc = "doc"
  /\ \E cut \in 0..Len(WriteJson(input)) :
       /\ buffer' = WithoutChar(WriteJson(input), cut)
       /\ start' = cut
  /\ pc' = "doc_text"
  /\ UNCHANGED <<input, outcome, pendingA, pendingB, mapA, mapB, bufA, bufB>>

\* from_json_string(&buffer)
FromJsonText ==
  /\ pc = "doc_text"
  /\ outcome' = from_json_string(buffer)
  /\ pc' = "text_read"
  /\ UNCHANGED <<input, buffer, start, pendingA, pendingB, mapA, mapB, bufA, bufB>>

NextJsonDoc == FromJsonDoc \/ WriteDoc \/ FromJsonText

SpecJsonDoc == InitJsonDoc /\ [][NextJsonDoc]_vars

(***************************************************************************)
(* SpecDecode: decode_impl at an offset of a buffer, and Decode::decode of *)
(* the buffer.  The buffers are every short byte string over the grammar's *)
(* bytes, the wire productions of a peer that need not be canonical, the   *)
(* buffers of the documentation and the tests, and length prefixes near    *)
(* and beyond usize::MAX.                                                  *)
(***************************************************************************)

\* 'd' 'l' 'u' 'i' '0' '1' ':' '-' 'e' 't' 'f' 'n' and 'x' (no production starts with it)
RawBytes ==
  {Ascii.d, Ascii.l, Ascii.u, Ascii.i, Ascii.zero, 49, Ascii.colon, Ascii.minus,
   Ascii.e, Ascii.t, Ascii.f, Ascii.n, 120}

RawBuffers == SeqsUpTo(RawBytes, MaxRawLen)

\* the items a peer puts between the lead byte and the end of a list or dictionary
WireItems ==
  {EncodeToVec(v) :
     v \in {Binary(<<>>), Text(<<233>>), Number(BigIntFrom(0 - 1)), Boolean(TRUE),
            Null, List(<<>>), Dictionary(<<>>)}}

\* 'd' or 'l', some items in any order and number, and the 'e' or nothing
WireProductions ==
  {<<lead>> \o Flatten(items) \o tail :
     lead \in {Ascii.d, Ascii.l},
     items \in SeqsUpTo(WireItems, MaxWireItems),
     tail \in {<<Ascii.e>>, <<>>}}

\* u-1:  u-1:a  u-0:  lu-12:e  u1:<90>  u2:<C3 A9>  i007e  i-0e  d1:an1:bne  d1:an1:ane
\* d1:ake  llni1xee  ld1:ai-xee
DocBuffers ==
  {<<117, 45, 49, 58>>, <<117, 45, 49, 58, 97>>, <<117, 45, 48, 58>>,
   <<108, 117, 45, 49, 50, 58, 101>>, <<117, 49, 58, 144>>, <<117, 50, 58, 195, 169>>,
   <<105, 48, 48, 55, 101>>, <<105, 45, 48, 101>>,
   <<100, 49, 58, 97, 110, 49, 58, 98, 110, 101>>,
   <<100, 49, 58, 97, 110, 49, 58, 97, 110, 101>>,
   <<100, 49, 58, 97, 107, 101>>, <<108, 108, 110, 105, 49, 120, 101, 101>>,
   <<108, 100, 49, 58, 97, 105, 45, 120, 101, 101>>}

\* three entries of a dictionary as a peer writes them: 1:b n, u1:a t, 1:a f
WireEntries ==
  <<<<49, Ascii.colon, 98, Ascii.n>>,
    <<Ascii.u, 49, Ascii.colon, 97, Ascii.t>>,
    <<49, Ascii.colon, 97, Ascii.f>>>>

\* the 'd' productions that hold the three entries, in each of their six orders
PermutedDicts ==
  {<<Ascii.d>> \o WireEntries[o[1]] \o WireEntries[o[2]] \o WireEntries[o[3]] \o <<Ascii.e>> :
     o \in {f \in [1..3 -> 1..3] : \A a, b \in 1..3 : a # b => f[a] # f[b]}}

\* lengths of ten and twenty digits: 2^32, 10^19, usize::MAX - 30, usize::MAX,
\* usize::MAX + 1 and 10^20 - 1
HugeLengths ==
  {<<4, 2, 9, 4, 9, 6, 7, 2, 9, 6>>,
   <<1, 0, 0, 0, 0, 0, 0, 0, 0, 0, 0, 0, 0, 0, 0, 0, 0, 0, 0, 0>>,
   <<1, 8, 4, 4, 6, 7, 4, 4, 0, 7, 3, 7, 0, 9, 5, 5, 1, 5, 8, 5>>,
   UsizeMax,
   <<1, 8, 4, 4, 6, 7, 4, 4, 0, 7, 3, 7, 0, 9, 5, 5, 1, 6, 1, 6>>,
   <<9, 9, 9, 9, 9, 9, 9, 9, 9, 9, 9, 9, 9, 9, 9, 9, 9, 9, 9, 9>>}

\* a binary or a text production declaring such a length, with one byte of payload
HugeLengthBuffers ==
  {lead \o [k \in 1..Len(ds) |-> Ascii.zero + ds[k]] \o <<Ascii.colon, 97>> :
     lead \in {<<>>, <<Ascii.u>>}, ds \in HugeLengths}

InitDecode ==
  /\ pc = "ready"
  /\ \/ buffer \in RawBuffers \cup DocBuffers \cup PermutedDicts \cup HugeLengthBuffers
        /\ start \in 0..MaxStart
     \/ buffer \in WireProductions
        /\ start = 0
  /\ input = <<>>
  /\ outcome = NoOutcome
  /\ pendingA = <<>> /\ pendingB = <<>>
  /\ mapA = <<>> /\ mapB = <<>>
  /\ bufA = <<>> /\ bufB = <<>>

\* decode_impl(&buffer, start)
DecodeImplAt ==
  /\ pc = "ready"
  /\ outcome' = decode_impl(buffer, start)
  /\ pc' = "impl_done"
  /\ UNCHANGED <<input, buffer, start, pendingA, pendingB, mapA, mapB, bufA, bufB>>

\* buffer.decode()
DecodeTop ==
  /\ pc = "ready"
  /\ start = 0
  /\ outcome' = decode(buffer)
  /\ pc' = "decode_done"
  /\ UNCHANGED <<input, buffer, start, pendingA, pendingB, mapA, mapB, bufA, bufB>>

NextDecode == DecodeImplAt \/ DecodeTop

SpecDecode == InitDecode /\ [][NextDecode]_vars

(***************************************************************************)
(* Claims about the round trip through the encoder and the decoder         *)
(***************************************************************************)

\* C1: decoding the bytes that encoding a value wrote returns Ok of that same value,
\* for every value: leaves of every variant, lists, dictionaries and nestings of them.
C1_RoundTrip ==
  pc = "decoded" => outcome = [tag |-> "Ok", value |-> input]

\* a dictionary of two entries, one under a Text key, has been encoded and decoded
C1_Witness ==
  /\ pc = "decoded"
  /\ input.t = "Dictionary"
  /\ Len(input.v) = 2
  /\ \E p \in 1..2 : input.v[p][1].t = "Text" /\ input.v[p][1].v # <<>>
  /\ outcome.tag = "Ok"

\* C5: decoding any proper prefix of an encoded value, the empty prefix included,
\* fails with InvalidBencodexValueError.
C5_TruncatedIsInvalid ==
  pc = "decoded_truncated" => outcome = InvalidBencodexValueError

(***************************************************************************)
(* Claims about dictionaries and the order of their keys                   *)
(***************************************************************************)

\* C2: inserting the same entries (distinct keys) in any two orders and encoding
\* both dictionaries gives the same bytes.
C2_CanonicalDeterminism ==
  pc = "maps_encoded" => bufA = bufB

\* two different orders of three entries, Binary and Text keys among them, were encoded
C2_Witness ==
  /\ pc = "maps_encoded"
  /\ input.orderA # input.orderB
  /\ Len(input.orderA) >= 3
  /\ \E p, q \in 1..Len(input.orderA) :
       input.orderA[p][1].t = "Binary" /\ input.orderA[q][1].t = "Text"
  /\ bufA # <<>>

\* xs is before ys byte by byte: xs is a strict prefix of ys, or at the first
\* position where they differ xs has the smaller byte
BytewiseBefore(xs, ys) ==
  \E p \in 1..Len(ys) :
    /\ p <= Len(xs) + 1
    /\ \A q \in 1..(p - 1) : xs[q] = ys[q]
    /\ (p = Len(xs) + 1 \/ xs[p] < ys[p])

\* the canonical key order as stated: Binary before Text, else byte-wise on the
\* raw bytes (Binary) or the UTF-8 bytes (Text)
CanonicallyBefore(x, y) ==
  \/ x.t = "Binary" /\ y.t = "Text"
  \/ x.t = y.t /\ BytewiseBefore(KeyBytes(x), KeyBytes(y))

\* the bytes of a 'd' production holding the given entries in the given order
DictBytes(es) ==
  <<Ascii.d>>
    \o Flatten([p \in 1..Len(es) |-> EncodeToVec(es[p][1]) \o EncodeToVec(es[p][2])])
    \o <<Ascii.e>>

\* C3: the encoder emits the entries in canonical key order (every Binary key before
\* every Text key, Binary keys byte-wise with a strict prefix first, Text keys
\* byte-wise on UTF-8), and compare_key answers Less/Equal/Greater accordingly.
C3_KeyOrder ==
  pc = "maps_encoded" =>
    /\ \E es \in Perms(input.orderA) :
         /\ \A p \in 1..(Len(es) - 1) : CanonicallyBefore(es[p][1], es[p + 1][1])
         /\ bufA = DictBytes(es)
    /\ \A p, q \in 1..Len(input.orderA) :
         LET x == input.orderA[p][1]
             y == input.orderA[q][1]
             c == outcome.cmp[<<p, q>>]
         IN  /\ c = "Less" <=> CanonicallyBefore(x, y)
             /\ c = "Greater" <=> CanonicallyBefore(y, x)
             /\ c = "Equal" <=> x = y

\* encoded: a Binary key that is a strict prefix of another Binary key, and a Text
\* key whose bytes are below both
C3_Witness ==
  /\ pc = "maps_encoded"
  /\ \E p, q, r \in 1..Len(input.orderA) :
       /\ input.orderA[p][1] = KeyBinary(<<97>>)
       /\ input.orderA[q][1] = KeyBinary(<<97, 97>>)
       /\ input.orderA[r][1] = KeyText(<<>>)
       /\ outcome.cmp[<<p, q>>] = "Less"
       /\ outcome.cmp[<<q, r>>] = "Less"

\* C13: trailing bytes are ignored: decoding the encoding of a value followed by any
\* bytes returns Ok of that value; the consumed length is not part of the result.
C13_TrailingIgnored ==
  pc = "decoded_extended" => outcome = [tag |-> "Ok", value |-> input]

\* a byte string followed by a digit and a ':', and a list followed by two bytes
C13_Witness ==
  /\ pc = "decoded_extended"
  /\ input.t \in {"Binary", "List"}
  /\ Len(buffer) = Len(EncodeToVec(input)) + 2
  /\ outcome.tag = "Ok"

(***************************************************************************)
(* Claims about the decoder on arbitrary buffers                           *)
(***************************************************************************)

\* the digits at 0-based positions from..(to - 1) of a buffer, as a magnitude
DigitsAt(vector, from, to) ==
  StripZeros([k \in 1..(to - from) |-> At(vector, from + k - 1) - Ascii.zero])

\* at offset s stands DIGITS ':' or 'u' DIGITS ':' and the digits denote more bytes
\* than the buffer holds after the ':'
DeclaresTooLong(vector, s) ==
  /\ s < Len(vector)
  /\ IsDigit(At(vector, s)) \/ At(vector, s) = Ascii.u
  /\ LET from == IF At(vector, s) = Ascii.u THEN s + 1 ELSE s
     IN  \E c \in (from + 1)..(Len(vector) - 1) :
           /\ At(vector, c) = Ascii.colon
           /\ \A k \in from..(c - 1) : IsDigit(At(vector, k))
           /\ MagGreater(DigitsAt(vector, from, c), NatDigits(Len(vector) - (c + 1)))

\* C4: where a binary or a text production declares a length larger than the bytes
\* left after its ':', decode_impl returns InvalidBencodexValueError (and so reads
\* nothing at or beyond the end of the buffer).
C4_TruncatedPayload ==
  pc = "impl_done" /\ DeclaresTooLong(buffer, start)
    => outcome = InvalidBencodexValueError

\* the four bytes u-1:
NegativeOne == <<Ascii.u, Ascii.minus, 49, Ascii.colon>>

\* C6: decoding `u-1:` from offset 0 fails with UnexpectedTokenError of token '-'
\* whose point is 2.
C6_NegativeOneAtTwo ==
  pc = "impl_done" /\ buffer = NegativeOne /\ start = 0
    => outcome = UnexpectedTokenError(Ascii.minus, 2)

\* C6 as amended: decoding `u-1:` from offset 0 fails with UnexpectedTokenError of
\* token '-' whose point is 1, the index of the sign.
C6_NegativeOneAtSign ==
  pc = "impl_done" /\ buffer = NegativeOne /\ start = 0
    => outcome = UnexpectedTokenError(Ascii.minus, 1)

\* `u-1:` has been decoded from offset 0
C6_Witness ==
  pc = "impl_done" /\ buffer = NegativeOne /\ start = 0 /\ outcome # NoOutcome

\* at offset s stands 'u', then '-', then a run of one or more digits that are not all '0'
NegativeNonZeroAt(vector, s) ==
  /\ s + 2 < Len(vector)
  /\ At(vector, s) = Ascii.u
  /\ At(vector, s + 1) = Ascii.minus
  /\ \E last \in (s + 2)..(Len(vector) - 1) :
       /\ \A k \in (s + 2)..last : IsDigit(At(vector, k))
       /\ At(vector, last) # Ascii.zero

\* C7: where 'u' at offset s is followed by '-' and digits denoting a non-zero number,
\* the decode fails with UnexpectedTokenError of token '-' and point s + 1.
C7_NegativeTextLength ==
  pc = "impl_done" /\ NegativeNonZeroAt(buffer, start)
    => outcome = UnexpectedTokenError(Ascii.minus, start + 1)

\* decoded at offset 1: 'u', the sign, and two digits
C7_Witness ==
  /\ pc = "impl_done"
  /\ start = 1
  /\ NegativeNonZeroAt(buffer, start)
  /\ Len(buffer) > 4 /\ IsDigit(At(buffer, 3)) /\ IsDigit(At(buffer, 4))
  /\ outcome.tag = "UnexpectedTokenError"

RECURSIVE KeyPositions(_, _, _)
\* the key positions the loop of a 'd' production visits from position p on, having
\* stored the keys seen: each is followed by a decodable key and value until it ends
KeyPositions(vector, p, seen) ==
  IF p >= Len(vector) \/ At(vector, p) = Ascii.e THEN {}
  ELSE
    LET k == decode_impl(vector, p)
    IN  IF ~IsOk(k) \/ k.value.t \notin {"Binary", "Text"} \/ k.value \in seen THEN {p}
        ELSE LET v == decode_impl(vector, p + k.size)
             IN  IF ~IsOk(v) THEN {p}
                 ELSE {p} \cup KeyPositions(vector, p + k.size + v.size, seen \cup {k.value})

\* a key position of the dictionary at `start`, or of a dictionary that is the first
\* element of the list at `start`, where a value that is no Binary and no Text decodes
BadKeyDecoded(vector, s) ==
  /\ s < Len(vector)
  /\ \E dpos \in {s} \cup (IF At(vector, s) = Ascii.l THEN {s + 1} ELSE {}) :
       /\ dpos < Len(vector)
       /\ At(vector, dpos) = Ascii.d
       /\ \E p \in KeyPositions(vector, dpos + 1, {}) :
            /\ IsOk(decode_impl(vector, p))
            /\ decode_impl(vector, p).value.t \in
                 {"Number", "Boolean", "Null", "List", "Dictionary"}

\* C8: when the value decoded at a key position of a 'd' production is a Number,
\* Boolean, Null, List or Dictionary, the whole decode fails with
\* InvalidBencodexValueError.
C8_KeyTyping ==
  pc = "impl_done" /\ BadKeyDecoded(buffer, start)
    => outcome = InvalidBencodexValueError

\* a dictionary whose first entry is well-formed and whose second key position holds a list
C8_Witness ==
  /\ pc = "impl_done"
  /\ BadKeyDecoded(buffer, start)
  /\ At(buffer, start) = Ascii.d
  /\ \E p \in KeyPositions(buffer, start + 1, {}) :
       p > start + 1 /\ At(buffer, p) = Ascii.l

RECURSIVE NoEqualKeys(_)
\* no dictionary in the value holds two entries with equal keys
NoEqualKeys(v) ==
  IF v.t = "Dictionary"
  THEN /\ \A p, q \in 1..Len(v.v) : p # q => v.v[p][1] # v.v[q][1]
       /\ \A p \in 1..Len(v.v) : NoEqualKeys(v.v[p][2])
  ELSE IF v.t = "List" THEN \A p \in 1..Len(v.v) : NoEqualKeys(v.v[p])
  ELSE TRUE

\* C9: Decode::decode of every buffer returns Ok(value) or Err(DecodeError) and never
\* aborts, also when a 'd' production repeats a key; a returned value holds no
\* dictionary with two equal keys.
C9_ValueOrTypedError ==
  pc = "decode_done" =>
    \/ outcome.tag \in {"InvalidBencodexValueError", "UnexpectedTokenError"}
    \/ outcome.tag = "Ok" /\ NoEqualKeys(outcome.value)

Leads ==
  {Ascii.d, Ascii.l, Ascii.u, Ascii.i, Ascii.t, Ascii.f, Ascii.n} \cup Ascii.zero..Ascii.nine

\* C10: decode_impl at an offset at or past the end returns InvalidBencodexValueError;
\* at a byte that starts no production it returns UnexpectedTokenError of that byte
\* and that offset; at 't', 'f', 'n' it returns true, false, null and a size of 1.
C10_LeadByteDispatch ==
  pc = "impl_done" =>
    /\ start >= Len(buffer) => outcome = InvalidBencodexValueError
    /\ start < Len(buffer) =>
         LET lead == At(buffer, start)
         IN  /\ lead \notin Leads => outcome = UnexpectedTokenError(lead, start)
             /\ lead = Ascii.t => outcome = Ok(Boolean(TRUE), 1)
             /\ lead = Ascii.f => outcome = Ok(Boolean(FALSE), 1)
             /\ lead = Ascii.n => outcome = Ok(Null, 1)

\* decoded at offset 1, where a byte that starts no production stands
C10_Witness ==
  /\ pc = "impl_done"
  /\ start = 1
  /\ start < Len(buffer)
  /\ At(buffer, start) \notin Leads
  /\ outcome.tag = "UnexpectedTokenError"

\* the byte after the lead byte at s exists and is neither a digit nor a '-' that a
\* digit follows
NonDigitAfterLead(vector, s) ==
  /\ s + 1 < Len(vector)
  /\ ~IsDigit(At(vector, s + 1))
  /\ ~(/\ At(vector, s + 1) = Ascii.minus
       /\ s + 2 < Len(vector)
       /\ IsDigit(At(vector, s + 2)))

\* C11: in the number production and in the text production, when the byte after the
\* lead byte exists and is neither a digit nor a '-' followed by a digit, the decode
\* fails with UnexpectedTokenError carrying that byte and its offset.
C11_NonDigitAfterLead ==
  pc = "impl_done" /\ start < Len(buffer) /\ At(buffer, start) \in {Ascii.i, Ascii.u}
                   /\ NonDigitAfterLead(buffer, start)
    => outcome = UnexpectedTokenError(At(buffer, start + 1), start + 1)

RECURSIVE FirstFailure(_, _, _)
\* the offset of the first item, from position p of a list or dictionary body on, that
\* decode_impl does not decode; -1 when every item up to the end decodes.  The loops
\* look for the 'e' before each element of a list and before each key of a
\* dictionary: `after` is what stands at p, "element", "key" or "value".
FirstFailure(vector, p, after) ==
  IF p >= Len(vector) \/ (after # "value" /\ At(vector, p) = Ascii.e) THEN 0 - 1
  ELSE LET r == decode_impl(vector, p)
       IN  IF ~IsOk(r) THEN p
           ELSE FirstFailure(vector, p + r.size,
                             IF after = "key" THEN "value"
                             ELSE IF after = "value" THEN "key" ELSE "element")

\* the first undecodable item of the list or dictionary production at offset s
FirstFailureIn(vector, s) ==
  FirstFailure(vector, s + 1, IF At(vector, s) = Ascii.d THEN "key" ELSE "element")

\* C12: an UnexpectedTokenError{token, point} returned for any buffer and start offset
\* has point < len(buffer) and buffer[point] = token; when the production at the start
\* offset is a list or a dictionary the error is the one its first undecodable item
\* raised, unchanged, and a list returns every error of an element unchanged.
C12_ErrorPosition ==
  pc = "impl_done" =>
    /\ outcome.tag = "UnexpectedTokenError" =>
          /\ outcome.point < Len(buffer)
          /\ At(buffer, outcome.point) = outcome.token
          /\ At(buffer, start) \in {Ascii.l, Ascii.d} =>
                /\ FirstFailureIn(buffer, start) > start
                /\ outcome = decode_impl(buffer, FirstFailureIn(buffer, start))
    /\ start < Len(buffer) /\ At(buffer, start) = Ascii.l
                           /\ FirstFailureIn(buffer, start) > start =>
          outcome = decode_impl(buffer, FirstFailureIn(buffer, start))

\* decoded at offset 1: a list whose second element is a number with a bad byte, which
\* is reported at its index in the whole buffer
C12_Witness ==
  /\ pc = "impl_done"
  /\ start = 1
  /\ At(buffer, start) = Ascii.l
  /\ FirstFailureIn(buffer, start) > start + 1
  /\ outcome.tag = "UnexpectedTokenError"
  /\ outcome.point > FirstFailureIn(buffer, start)

\* at offset s stands 'u', one or more digits, ':' and as many bytes as the digits
\* denote, `size` bytes in all
TextGrammarAt(vector, s, size) ==
  /\ At(vector, s) = Ascii.u
  /\ s + size <= Len(vector)
  /\ \E c \in (s + 2)..(s + size - 1) :
       /\ At(vector, c) = Ascii.colon
       /\ \A k \in (s + 1)..(c - 1) : IsDigit(At(vector, k))
       /\ DigitsAt(vector, s + 1, c) = StripZeros(NatDigits(s + size - (c + 1)))

\* C14: decode_impl returns a Text only where 'u', one or more digits, ':' and that
\* many bytes stand; where 'u' is followed by '-' (as in `u-0:`) it never returns Ok.
C14_TextGrammar ==
  pc = "impl_done" =>
    /\ IsOk(outcome) /\ outcome.value.t = "Text" =>
          TextGrammarAt(buffer, start, outcome.size)
    /\ start + 1 < Len(buffer) /\ At(buffer, start) = Ascii.u
                               /\ At(buffer, start + 1) = Ascii.minus =>
          ~IsOk(outcome)

(***************************************************************************)
(* Claims about the encoder and its sink                                   *)
(***************************************************************************)

\* C15: when the n-th write made during the encoding of a value fails, encode returns
\* the error, the sink sees no call after the n-th, and it holds the bytes of the
\* first n - 1 writes.
C15_SinkFailureAborts ==
  pc = "sink_done" =>
    \A n \in 1..Len(encode(input.value)) :
      input.throw_counts = {n} =>
        /\ outcome = [tag |-> "Err", call_count |-> n]
        /\ buffer = Flatten(SubSeq(encode(input.value), 1, n - 1))

\* the failing write is the one that closes a list nested in a list or a dictionary
C15_Witness ==
  /\ pc = "sink_done"
  /\ input.value \in DeepValues
  /\ input.throw_counts = {Len(encode(input.value)) - 1}
  /\ outcome.tag = "Err"
  /\ buffer # <<>>

\* C16: encode returns Ok whenever every write to the sink succeeds, whatever the
\* value, and the sink then holds the whole encoding; it returns an error only when a
\* write it made failed.
C16_FailsOnlyOnSink ==
  pc = "sink_done" =>
    /\ outcome.tag = "Err" <=> input.throw_counts \cap 1..outcome.call_count # {}
    /\ outcome.tag = "Ok" =>
          /\ buffer = EncodeToVec(input.value)
          /\ outcome.call_count = Len(encode(input.value))

\* an empty Text, an empty Binary, and a dictionary with an empty key went through a
\* sink none of whose calls failed
C16_Witness ==
  /\ pc = "sink_done"
  /\ \/ input.value \in {Text(<<>>), Binary(<<>>)}
     \/ input.value.t = "Dictionary" /\ Len(input.value.v) = 2
  /\ input.throw_counts \cap 1..outcome.call_count = {}
  /\ outcome.tag = "Ok"

\* from position `from` on the vector holds a decimal number without a leading zero,
\* ':' and the payload, and the number is the count of the payload's bytes
LengthPrefixed(vector, from, payload) ==
  \E c \in (from + 1)..(Len(vector) - 1) :
    /\ At(vector, c) = Ascii.colon
    /\ \A k \in from..(c - 1) : IsDigit(At(vector, k))
    /\ At(vector, from) = Ascii.zero => c = from + 1
    /\ MagValue([k \in 1..(c - from) |-> At(vector, from + k - 1) - Ascii.zero])
         = Len(payload)
    /\ Slice(vector, c + 1, Len(vector)) = payload

\* C17: the encoding of Binary(b) is the decimal count of b's bytes, ':' and b; the
\* encoding of Text(s) is 'u', the decimal count of the UTF-8 bytes of s (not of its
\* characters), ':' and those bytes.
C17_LengthCountsBytes ==
  pc = "encoded" =>
    /\ input.t = "Binary" => LengthPrefixed(buffer, 0, input.v)
    /\ input.t = "Text" =>
          /\ At(buffer, 0) = Ascii.u
          /\ LengthPrefixed(buffer, 1, as_bytes(input.v))

\* encoded: a Text of five two-byte characters, its prefix the two digits of ten
C17_Witness ==
  /\ pc = "encoded"
  /\ input.t = "Text"
  /\ Len(input.v) = 5
  /\ Len(as_bytes(input.v)) = 10
  /\ Slice(buffer, 0, 4) = <<Ascii.u, 49, 48, Ascii.colon>>

(***************************************************************************)
(* Claims about the JSON bridge                                            *)
(***************************************************************************)

\* C18: reading back the JSON text written for a value, with the base64 and with the
\* hexadecimal binary encoding, returns Ok of that value, also for texts and text keys
\* that hold '"', a backslash, a newline, or a backslash followed by 'n'.
C18_JsonRoundTrip ==
  pc = "json_read" => outcome = JsonOk(input.value)

\* C19: the JSON text written for a Text, as a value or as a key, is a well-formed
\* JSON string that spells U+FEFF followed by the text: '"', the backslash and control
\* characters are escaped, a newline is written as a backslash and an 'n'.
C19_JsonTextEscaping ==
  pc = "json_written" =>
    /\ from_str(buffer).ok
    /\ input.value.t = "Text" =>
          /\ Literal(buffer, 1, <<Chr.quote, Chr.bom>>)
          /\ from_str(buffer).value = JString(<<Chr.bom>> \o input.value.v)
    /\ input.value.t = "Dictionary" =>
          \A p \in 1..Len(input.value.v) :
            input.value.v[p][1].t = "Text" =>
              \E q \in 1..Len(from_str(buffer).value.val) :
                from_str(buffer).value.val[q][1] = <<Chr.bom>> \o input.value.v[p][1].v

\* lowercase of the hexadecimal digits 'A'..'F'
LowerHex(s) == [k \in 1..Len(s) |-> IF s[k] >= 65 /\ s[k] <= 70 THEN s[k] + 32 ELSE s[k]]

\* one optional '-' and then one or more digits
IsInteger(s) ==
  LET digits == IF s # <<>> /\ s[1] = Chr.minus THEN Tail(s) ELSE s
  IN  digits # <<>> /\ \A k \in 1..Len(digits) : IsDigit(digits[k])

\* C20: from_json on a JSON string takes the rest after "b64:" for base64 and the rest
\* after "0x" for hexadecimal digits, giving a Binary or InvalidJson when the rest is
\* not valid; takes the rest after U+FEFF for a Text; takes a string of digits and '-'
\* for a Number, or InvalidJson when it is no integer ("", "-", "1-2"); and returns
\* InvalidJson for every other string.
C20_JsonStringClassification ==
  pc = "classified" =>
    IF StartsWith(input, PrefixB64) THEN
      LET rest == StripPrefix(input, PrefixB64)
      IN  /\ \/ outcome = InvalidJson
             \/ /\ outcome.tag = "Ok" /\ outcome.value.t = "Binary"
                /\ base64_encode(outcome.value.v) = rest
          /\ Len(rest) % 4 # 0 \/ (\E k \in 1..Len(rest) : rest[k] = Chr.minus)
                => outcome = InvalidJson
          /\ rest \in {<<>>, <<89, 81, 61, 61>>, <<97, 97, 97, 97>>} => outcome.tag = "Ok"
    ELSE IF StartsWith(input, PrefixHex) THEN
      LET rest == StripPrefix(input, PrefixHex)
          bad == Len(rest) % 2 # 0 \/ \E k \in 1..Len(rest) : HexVal(rest[k]) < 0
      IN  /\ bad => outcome = InvalidJson
          /\ ~bad => /\ outcome.tag = "Ok" /\ outcome.value.t = "Binary"
                      /\ hex_encode(outcome.value.v) = LowerHex(rest)
    ELSE IF StartsWith(input, <<Chr.bom>>) THEN
      outcome = JsonOk(Text(Tail(input)))
    ELSE IF \A k \in 1..Len(input) : IsDigit(input[k]) \/ input[k] = Chr.minus THEN
      /\ IsInteger(input) =>
            /\ outcome.tag = "Ok" /\ outcome.value.t = "Number"
            /\ outcome.value.v.neg = (input[1] = Chr.minus /\ outcome.value.v.mag # <<0>>)
            /\ MagValue(outcome.value.v.mag)
                 = MagValue([k \in 1..Len(input) |->
                              IF IsDigit(input[k]) THEN input[k] - 48 ELSE 0])
      /\ ~IsInteger(input) => outcome = InvalidJson
    ELSE outcome = InvalidJson

\* classified: "b64:" with a rest of four characters that is no valid base64, and
\* "1-2"-like strings of digits and '-' that are no integer
C20_Witness ==
  /\ pc = "classified"
  /\ \/ StartsWith(input, PrefixB64) /\ Len(input) = 8
     \/ Len(input) = 3 /\ input[2] = Chr.minus /\ IsDigit(input[1]) /\ IsDigit(input[3])
  /\ outcome = InvalidJson

(***************************************************************************)
(* C21: from_json answers InvalidJson for every JSON document that holds a *)
(* numeric literal: at the top level, as an array element at any depth, or *)
(* as the value of an object member at any depth.                          *)
(***************************************************************************)

RECURSIVE HasNumber(_)
\* a numeric literal stands somewhere in the document
HasNumber(value) ==
  \/ value.k = "Number"
  \/ value.k = "Array" /\ \E q \in 1..Len(value.val) : HasNumber(value.val[q])
  \/ value.k = "Object" /\ \E q \in 1..Len(value.val) : HasNumber(value.val[q][2])

C21_NumbersRejected ==
  pc = "doc_mapped" /\ HasNumber(input) => outcome = InvalidJson

\* mapped: a number three levels down in objects and an array, and a number as the
\* second member of an object whose first member maps
C21_Witness ==
  /\ pc = "doc_mapped"
  /\ outcome = InvalidJson
  /\ \/ /\ input.k = "Object" /\ Len(input.val) = 1
        /\ input.val[1][2].k = "Object" /\ HasNumber(input.val[1][2])
     \/ /\ input.k = "Object" /\ Len(input.val) = 2
        /\ input.val[1][2] = JNull /\ input.val[2][2].k = "Number"

(***************************************************************************)
(* C22: from_json_string answers InvalidJsonString exactly when its text   *)
(* is not well-formed JSON, and InvalidJson exactly when the text is       *)
(* well-formed JSON that from_json cannot map; the two are never           *)
(* exchanged.  Well-formed is the grammar of RFC 8259, recognised here on  *)
(* its own: JsonValueEnd is the position after the value at p, 0 for none. *)
(***************************************************************************)

RECURSIVE JsonStringEnd(_, _)
\* string = quotation-mark *char quotation-mark, from the position after the first
JsonStringEnd(s, p) ==
  IF p > Len(s) THEN 0
  ELSE IF s[p] = Chr.quote THEN p + 1
  ELSE IF s[p] < 32 THEN 0
  ELSE IF s[p] # Chr.backslash THEN JsonStringEnd(s, p + 1)
  ELSE IF p + 1 > Len(s) THEN 0
  ELSE IF s[p + 1] = 117 THEN (IF Hex4(s, p + 2) < 0 THEN 0 ELSE JsonStringEnd(s, p + 6))
  ELSE IF EscapeOf(s[p + 1]) < 0 THEN 0
  ELSE JsonStringEnd(s, p + 2)

\* number = [ minus ] int [ frac ] [ exp ]
JsonNumberEnd(s, p) ==
  LET int == IF p <= Len(s) /\ s[p] = Chr.minus THEN p + 1 ELSE p
      intEnd == IF int <= Len(s) /\ s[int] = 48 THEN int + 1 ELSE DigitsEnd(s, int)
      hasFrac == intEnd <= Len(s) /\ s[intEnd] = 46
      fracEnd == IF hasFrac THEN DigitsEnd(s, intEnd + 1) ELSE intEnd
      hasExp == fracEnd <= Len(s) /\ s[fracEnd] \in {69, 101}
      expDigits == IF hasExp /\ fracEnd + 1 <= Len(s)
                      /\ s[fracEnd + 1] \in {Chr.plus, Chr.minus}
                   THEN fracEnd + 2 ELSE fracEnd + 1
      expEnd == IF hasExp THEN DigitsEnd(s, expDigits) ELSE fracEnd
  IN  IF intEnd = int THEN 0
      ELSE IF hasFrac /\ fracEnd = intEnd + 1 THEN 0
      ELSE IF hasExp /\ expEnd = expDigits THEN 0
      ELSE expEnd

RECURSIVE JsonValueEnd(_, _)
RECURSIVE JsonItemsEnd(_, _)
RECURSIVE JsonMembersEnd(_, _)

\* value *( value-separator value ) end-array
JsonItemsEnd(s, p) ==
  LET item == JsonValueEnd(s, p)
      q == SkipWs(s, item)
  IN  IF item = 0 \/ q > Len(s) THEN 0
      ELSE IF s[q] = Chr.rbracket THEN q + 1
      ELSE IF s[q] = Chr.comma THEN JsonItemsEnd(s, q + 1)
      ELSE 0

\* member *( value-separator member ) end-object
JsonMembersEnd(s, p) ==
  LET n == SkipWs(s, p)
      name == IF n <= Len(s) /\ s[n] = Chr.quote THEN JsonStringEnd(s, n + 1) ELSE 0
      c == SkipWs(s, name)
      value == IF name # 0 /\ c <= Len(s) /\ s[c] = Chr.colon
               THEN JsonValueEnd(s, c + 1) ELSE 0
      q == SkipWs(s, value)
  IN  IF value = 0 \/ q > Len(s) THEN 0
      ELSE IF s[q] = Chr.rbrace THEN q + 1
      ELSE IF s[q] = Chr.comma THEN JsonMembersEnd(s, q + 1)
      ELSE 0

JsonValueEnd(s, p) ==
  LET q == SkipWs(s, p)
  IN  IF q > Len(s) THEN 0
      ELSE IF Literal(s, q, <<110, 117, 108, 108>>) THEN q + 4
      ELSE IF Literal(s, q, <<116, 114, 117, 101>>) THEN q + 4
      ELSE IF Literal(s, q, <<102, 97, 108, 115, 101>>) THEN q + 5
      ELSE IF s[q] = Chr.quote THEN JsonStringEnd(s, q + 1)
      ELSE IF s[q] = Chr.lbracket THEN
        (IF SkipWs(s, q + 1) <= Len(s) /\ s[SkipWs(s, q + 1)] = Chr.rbracket
         THEN SkipWs(s, q + 1) + 1 ELSE JsonItemsEnd(s, q + 1))
      ELSE IF s[q] = Chr.lbrace THEN
        (IF SkipWs(s, q + 1) <= Len(s) /\ s[SkipWs(s, q + 1)] = Chr.rbrace
         THEN SkipWs(s, q + 1) + 1 ELSE JsonMembersEnd(s, q + 1))
      ELSE JsonNumberEnd(s, q)

\* JSON-text = ws value ws
WellFormedJson(s) ==
  JsonValueEnd(s, 1) # 0 /\ SkipWs(s, JsonValueEnd(s, 1)) > Len(s)

C22_JsonErrorSplit ==
  pc = "text_read" =>
    /\ outcome = InvalidJsonString <=> ~WellFormedJson(buffer)
    /\ outcome = InvalidJson <=>
          /\ WellFormedJson(buffer)
          /\ ~(from_str(buffer).ok /\ from_json(from_str(buffer).value).tag = "Ok")

(***************************************************************************)
(* C23: to_json renders Binary(b) as the string "b64:" and the standard    *)
(* base64 of b, and with the Hex option as "0x" and the lowercase          *)
(* hexadecimal of b; a Binary key of a dictionary is written the same way  *)
(* and a Text key after U+FEFF; a Number is written as a JSON string of    *)
(* its decimal digits, never as a numeric literal.                         *)
(***************************************************************************)

\* the text is the one standard base64 of the bytes: padded to groups of four, and
\* read back as the bytes by a decoder that takes the canonical form only
IsBase64Of(text, b) ==
  /\ Len(text) = 4 * ((Len(b) + 2) \div 3)
  /\ base64_decode(text) = [ok |-> TRUE, bytes |-> b]

\* the text is the lowercase hexadecimal of the bytes
IsLowerHexOf(text, b) ==
  /\ Len(text) = 2 * Len(b)
  /\ \A q \in 1..Len(text) : text[q] \in 48..57 \cup 97..102
  /\ hex_decode(text) = [ok |-> TRUE, bytes |-> b]

\* the string that stands for a byte string under an encoding
IsBinaryString(string, b, encoding) ==
  IF encoding = "Base64"
  THEN StartsWith(string, PrefixB64) /\ IsBase64Of(StripPrefix(string, PrefixB64), b)
  ELSE StartsWith(string, PrefixHex) /\ IsLowerHexOf(StripPrefix(string, PrefixHex), b)

\* the string that stands for a key: a byte string as above, a text after U+FEFF
IsKeyString(string, key, encoding) ==
  IF key.t = "Binary" THEN IsBinaryString(string, key.v, encoding)
  ELSE string # <<>> /\ Head(string) = Chr.bom /\ Tail(string) = replace_newline(key.v)

\* the JSON text holds, as a member name, a string that stands for the key
KeyWritten(text, key, encoding) ==
  \E i \in 1..Len(text) : \E j \in (i + 1)..(Len(text) - 1) :
    /\ text[i] = Chr.quote /\ text[j] = Chr.quote /\ text[j + 1] = Chr.colon
    /\ IsKeyString(SubSeq(text, i + 1, j - 1), key, encoding)

C23_BinaryAndNumberStrings ==
  pc \in {"json_written", "json_default"} =>
    LET encoding == IF pc = "json_default" THEN "Base64" ELSE input.options.binary_encoding
        value == input.value
        string == SubSeq(buffer, 2, Len(buffer) - 1)
        quoted == Len(buffer) >= 2 /\ buffer[1] = Chr.quote /\ buffer[Len(buffer)] = Chr.quote
    IN  /\ value.t = "Binary" => quoted /\ IsBinaryString(string, value.v, encoding)
        /\ value = Binary(<<0, 255, 16, 97>>) =>
              string = IF encoding = "Base64"
                       THEN PrefixB64 \o <<65, 80, 56, 81, 89, 81, 61, 61>>
                       ELSE PrefixHex \o <<48, 48, 102, 102, 49, 48, 54, 49>>
        /\ value.t = "Number" =>
              /\ quoted
              /\ string = (IF value.v.neg THEN <<Chr.minus>> ELSE <<>>)
                            \o [q \in 1..Len(value.v.mag) |-> 48 + value.v.mag[q]]
        /\ value.t = "Dictionary" =>
              \A p \in 1..Len(value.v) : KeyWritten(buffer, value.v[p][1], encoding)

\* written with the default options: the four bytes 00 FF 10 61 as "b64:AP8QYQ=="
C23_Witness ==
  /\ pc = "json_default"
  /\ input.value = Binary(<<0, 255, 16, 97>>)
  /\ input.options.binary_encoding = "Hex"
  /\ buffer = <<Chr.quote>> \o PrefixB64 \o <<65, 80, 56, 81, 89, 81, 61, 61>> \o <<Chr.quote>>

(***************************************************************************)
(* C24: for every value v and all bytes p before and t after its encoding, *)
(* decode_impl(p ++ encode(v) ++ t, len(p)) is Ok((v, len(encode(v)))):    *)
(* the value and the size do not depend on p or t.                         *)
(***************************************************************************)
C24_OffsetIndependent ==
  pc = "embedded_decoded" => outcome = Ok(input, Len(EncodeToVec(input)))

\* decoded: a dictionary that stands after one byte and before two more
C24_Witness ==
  /\ pc = "embedded_decoded"
  /\ start = 1
  /\ input.t = "Dictionary" /\ Len(input.v) = 2
  /\ Len(buffer) = 1 + Len(EncodeToVec(input)) + 2
  /\ outcome = Ok(input, Len(buffer) - 3)

(***************************************************************************)
(* C25: every successful decode_impl(buffer, s) answers a size n with      *)
(* 1 <= n <= len(buffer) - s, at the offset the caller gave and at every   *)
(* offset a list or dictionary loop can call it with; so the cursor of the *)
(* loops grows with each item and the decoding ends.                       *)
(***************************************************************************)
C25_Progress ==
  pc = "impl_done" =>
    /\ IsOk(outcome) => 1 <= outcome.size /\ outcome.size <= Len(buffer) - start
    /\ \A s \in 0..(Len(buffer) - 1) :
          IsOk(decode_impl(buffer, s)) =>
            /\ 1 <= decode_impl(buffer, s).size
            /\ decode_impl(buffer, s).size <= Len(buffer) - s

\* decoded: a list of three or more items, the last of them a list or a dictionary,
\* that ends with the buffer
C25_Witness ==
  /\ pc = "impl_done"
  /\ IsOk(outcome) /\ outcome.value.t = "List" /\ Len(outcome.value.v) >= 3
  /\ outcome.value.v[Len(outcome.value.v)].t \in {"List", "Dictionary"}
  /\ outcome.size = Len(buffer) - start

(***************************************************************************)
(* C26: the arithmetic on a declared length does not overflow: where a     *)
(* binary or a text production declares a length L such that L, or the     *)
(* offset after its ':' plus L, is above usize::MAX, decoding returns      *)
(* InvalidBencodexValueError; no conversion fails, no addition wraps, no   *)
(* slice is out of range.                                                  *)
(***************************************************************************)

\* at offset s stands DIGITS ':' or 'u' DIGITS ':' and the digits, or the end offset
\* they give, do not fit a usize
DeclaresBeyondUsize(vector, s) ==
  /\ s < Len(vector)
  /\ IsDigit(At(vector, s)) \/ At(vector, s) = Ascii.u
  /\ LET from == IF At(vector, s) = Ascii.u THEN s + 1 ELSE s
     IN  \E c \in (from + 1)..(Len(vector) - 1) :
           /\ At(vector, c) = Ascii.colon
           /\ \A k \in from..(c - 1) : IsDigit(At(vector, k))
           /\ \/ MagGreater(DigitsAt(vector, from, c), UsizeMax)
              \/ MagGreater(MagAddSmall(DigitsAt(vector, from, c), c + 1), UsizeMax)

C26_LengthArithmetic ==
  pc \in {"impl_done", "decode_done"} /\ DeclaresBeyondUsize(buffer, start)
    => outcome = InvalidBencodexValueError

(***************************************************************************)
(* C27: the decoder takes integers with zeros in front: `i007e` decodes to *)
(* Number(7) and `i-0e` to Number(0), and every 'i' production of digits   *)
(* to the number its digits denote; so encoding what was decoded can give  *)
(* bytes other than the ones decoded.                                      *)
(***************************************************************************)

\* the buffer is 'i', an optional '-', one or more digits, 'e'
IsIntegerProduction(vector) ==
  /\ Len(vector) >= 3
  /\ At(vector, 0) = Ascii.i /\ At(vector, Len(vector) - 1) = Ascii.e
  /\ LET from == IF At(vector, 1) = Ascii.minus THEN 2 ELSE 1
     IN  /\ from < Len(vector) - 1
         /\ \A k \in from..(Len(vector) - 2) : IsDigit(At(vector, k))

C27_LeadingZeros ==
  pc = "decode_done" =>
    /\ buffer = <<Ascii.i, 48, 48, 55, Ascii.e>> =>
          /\ outcome = [tag |-> "Ok", value |-> Number(BigIntFrom(7))]
          /\ EncodeToVec(outcome.value) = <<Ascii.i, 55, Ascii.e>>
    /\ buffer = <<Ascii.i, Ascii.minus, 48, Ascii.e>> =>
          /\ outcome = [tag |-> "Ok", value |-> Number(BigIntFrom(0))]
          /\ EncodeToVec(outcome.value) = <<Ascii.i, 48, Ascii.e>>
    /\ IsIntegerProduction(buffer) =>
          LET from == IF At(buffer, 1) = Ascii.minus THEN 2 ELSE 1
              mag == DigitsAt(buffer, from, Len(buffer) - 1)
          IN  outcome = [tag |-> "Ok",
                         value |-> Number([neg |-> from = 2 /\ mag # <<0>>, mag |-> mag])]

\* decoded: i007e, and encoding the result gives other bytes
C27_Witness ==
  /\ pc = "decode_done"
  /\ buffer = <<Ascii.i, 48, 48, 55, Ascii.e>>
  /\ outcome.tag = "Ok"
  /\ EncodeToVec(outcome.value) # buffer

(***************************************************************************)
(* C28: the decoder does not ask for canonical key order: a 'd' production *)
(* whose keys are distinct decodes to the same Dictionary for every order  *)
(* of its entries, a Text key before a Binary key included.                *)
(***************************************************************************)

\* the keys a peer can write with the wire items: the empty byte string and the text
\* U+00E9
WireKeys == {EncodeToVec(Binary(<<>>)), EncodeToVec(Text(<<233>>))}

C28_AnyKeyOrder ==
  pc = "decode_done" =>
    /\ buffer \in PermutedDicts =>
          outcome = [tag |-> "Ok",
                     value |-> Dictionary(<<<<KeyBinary(<<97>>), Boolean(FALSE)>>,
                                            <<KeyBinary(<<98>>), Null>>,
                                            <<KeyText(<<97>>), Boolean(TRUE)>>>>)]
    /\ \A k1, k2 \in WireKeys : \A v1, v2 \in WireItems :
          k1 # k2 /\ buffer = <<Ascii.d>> \o k1 \o v1 \o k2 \o v2 \o <<Ascii.e>> =>
            /\ outcome.tag = "Ok"
            /\ outcome = decode(<<Ascii.d>> \o k2 \o v2 \o k1 \o v1 \o <<Ascii.e>>)

\* decoded: the three entries with the Text key first and the larger Binary key
\* before the smaller
C28_Witness ==
  /\ pc = "decode_done"
  /\ buffer = <<Ascii.d>> \o WireEntries[2] \o WireEntries[1] \o WireEntries[3] \o <<Ascii.e>>
  /\ outcome.tag = "Ok"
  /\ Len(outcome.value.v) = 3

(***************************************************************************)
(* C29: compare_key(x, y) is the derived Ord of BencodexKey for every pair *)
(* of keys, so the sort of the encoder never moves an entry of the map's   *)
(* iteration, and to_json writes the entries in the same canonical order   *)
(* as the binary encoder.                                                  *)
(***************************************************************************)

\* the text of a JSON object holding the given entries in the given order
JsonObjectText(es) ==
  <<Chr.lbrace>>
    \o Flatten([p \in 1..Len(es) |->
                  to_json_key_impl(es[p][1], JsonEncodeOptionsDefault) \o <<Chr.colon>>
                    \o to_json_value_impl(es[p][2], JsonEncodeOptionsDefault)
                    \o (IF p < Len(es) THEN <<Chr.comma>> ELSE <<>>)])
    \o <<Chr.rbrace>>

C29_SortAgreesWithMap ==
  pc \in {"maps_encoded", "maps_json"} =>
    /\ \A p, q \in 1..Len(input.orderA) :
          outcome.cmp[<<p, q>>] = KeyOrd(input.orderA[p][1], input.orderA[q][1])
    /\ sorted_by(mapA) = mapA
    /\ pc = "maps_json" =>
          \E es \in Perms(input.orderA) :
            /\ bufA = DictBytes(es)
            /\ as_bytes(buffer) = JsonObjectText(es)

\* written as JSON: a dictionary of three entries with keys of both variants,
\* inserted in another order than the canonical one
C29_Witness ==
  /\ pc = "maps_json"
  /\ Len(mapA) = 3
  /\ input.orderA # mapA
  /\ mapA[1][1].t = "Binary" /\ mapA[3][1].t = "Text"
  /\ buffer[1] = Chr.lbrace

(***************************************************************************)
(* C30: a JSON object with two names that stand for the same key, "0x61"   *)
(* and "b64:YQ==", is mapped by from_json to Ok of a Dictionary with one   *)
(* entry, whose value is that of the member visited last in the iteration  *)
(* of the object; it is no error.                                          *)
(***************************************************************************)

\* the object has the two members "0x61" and "b64:YQ==", and both values map
TwoNamesOneKey(value) ==
  /\ value.k = "Object" /\ Len(value.val) = 2
  /\ value.val[1][1] = PrefixHex \o <<54, 49>>
  /\ value.val[2][1] = PrefixB64 \o <<89, 81, 61, 61>>
  /\ from_json(value.val[1][2]).tag = "Ok"
  /\ from_json(value.val[2][2]).tag = "Ok"

C30_JsonDuplicateOverwrites ==
  (pc = "doc_mapped" \/ (pc = "text_read" /\ start = 0)) /\ TwoNamesOneKey(input) =>
    outcome = JsonOk(Dictionary(<<<<KeyBinary(<<97>>), from_json(input.val[2][2]).value>>>>))

\* mapped: {"0x61": null, "b64:YQ==": "12"} as the one entry a -> 12
C30_Witness ==
  /\ pc = "doc_mapped"
  /\ TwoNamesOneKey(input)
  /\ input.val[1][2] = JNull
  /\ input.val[2][2] = JString(<<49, 50>>)
  /\ outcome = JsonOk(Dictionary(<<<<KeyBinary(<<97>>), Number(BigIntFrom(12))>>>>))

====
